---------------------------- MODULE Spec2Model ----------------------------
(***************************************************************************)
(* A model of the maisquelle MySQL monitoring agent:                       *)
(*   - the query-cache evaluator (QueryAnalyzer.analyze_query_cache and    *)
(*     its copy SystemMySQLMonitor.analyze_query_cache),                   *)
(*   - the report sink (ReportHandler.save_report),                        *)
(*   - the orchestrator (SystemMySQLMonitor.generate_report),              *)
(*   - the advisory bridge (AnthropicHandler._process_ai_response),        *)
(*   - the advisory call (AnthropicHandler.analyze_report),                *)
(*   - the save / load round trip (ReportHandler.load_report),             *)
(*   - the conversion (ReportHandler._convert_to_serializable),            *)
(*   - table health (TableStatistics.analyze_table_health),                *)
(*   - performance metrics (analyze_performance_metrics and the three      *)
(*     adapters of PerformanceMonitor),                                    *)
(*   - interactive approval                                                *)
(*     (AnthropicHandler.process_commands_interactively).                  *)
(* Each component has its own specification; the variables of the other   *)
(* components stay at their initial values in it.                          *)
(***************************************************************************)
EXTENDS Integers, Sequences, FiniteSets, TLC

VARIABLES
    \* ---- query-cache evaluator
    cache_status,   \* SHOW GLOBAL STATUS LIKE 'Qcache%' as a key -> raw value map
    cache_config,   \* SHOW GLOBAL VARIABLES LIKE 'query_cache%'
    qcDb,           \* "up" | "down": whether mysql.connector.connect succeeds
    qcPc,           \* "start" | "done"
    qcResult,       \* what analyze_query_cache returned
    qcConn,         \* "none" | "open" | "closed": the connection of the call
    \* ---- report sink
    now,            \* the wall clock, in ticks
    files,          \* the output directory: file name stamp -> file
    returned,       \* the paths save_report returned so far, in call order
    sinkLast,       \* the last save_report call: its number, outcome and path,
                    \* and the directory as it was before the call
    \* ---- orchestrator
    runIn,          \* what each adapter meets during the run
    runPc,          \* "start" | "done"
    runResult,      \* what generate_report did: outcome, adapter returns, report
    \* ---- advisory bridge
    advResponse,    \* the response text of the advisory service, as it parses
    advPc,          \* "start" | "done"
    advResult,      \* the list _process_ai_response returned
    \* ---- advisory call
    arIn,           \* what analyze_report met: the data, the transport, the text
    arPc,           \* "start" | "done"
    arResult,       \* how analyze_report ended and what it returned
    \* ---- save / load round trip
    rtData,         \* the report data handed to save_report
    rtPc,           \* "start" | "loaded"
    rtLoaded,       \* what load_report returned
    \* ---- conversion
    cvData,         \* the value handed to _convert_to_serializable
    cvPc,           \* "start" | "done"
    cvResult,       \* how the conversion ended and what it returned
    \* ---- table health
    thStats,        \* the stats handed to analyze_table_health
    thPc,           \* "start" | "done"
    thResult,       \* how analyze_table_health ended and what it returned
    \* ---- performance metrics
    pmIn,           \* what the three adapters of PerformanceMonitor meet
    pmPc,           \* "start" | "done"
    pmResult,       \* what analyze_performance_metrics returned and left behind
    \* ---- interactive approval
    ipCommands,     \* the commands handed to process_commands_interactively
    ipPc,           \* "start" | "prompt" | "done"
    ipIndex,        \* the position of the command being prompted
    ipAnswers,      \* the answers rejected so far at the current prompt
    ipChoices,      \* the answer accepted for each command decided so far
    ipPrompted,     \* the commands shown so far, in order
    ipApproved      \* approved_commands; the returned list once ipPc = "done"

qcVars == <<cache_status, cache_config, qcDb, qcPc, qcResult, qcConn>>
sinkVars == <<now, files, returned, sinkLast>>
runVars == <<runIn, runPc, runResult>>
advVars == <<advResponse, advPc, advResult>>
arVars == <<arIn, arPc, arResult>>

\* The components added to the first four.
rtVars == <<rtData, rtPc, rtLoaded>>
cvVars == <<cvData, cvPc, cvResult>>
thVars == <<thStats, thPc, thResult>>
pmVars == <<pmIn, pmPc, pmResult>>
ipVars == <<ipCommands, ipPc, ipIndex, ipAnswers, ipChoices, ipPrompted, ipApproved>>
extVars == <<arVars, rtVars, cvVars, thVars, pmVars, ipVars>>

vars == <<qcVars, sinkVars, runVars, advVars, extVars>>

(***************************************************************************)
(* Raw counter values.  MySQL hands every value over as a string; a key    *)
(* may be absent from the result set.  float() and int() accept a numeric  *)
(* string, raise ValueError on a non-numeric one and TypeError on None.    *)
(***************************************************************************)
Num(n)  == [k |-> "num", n |-> n]
Missing == [k |-> "missing", n |-> 0]
Bad     == [k |-> "bad", n |-> 0]
Null    == [k |-> "null", n |-> 0]

\* dict.get(key, default): the default replaces an absent key only.
Get(raw, default) == IF raw.k = "missing" THEN Num(default) ELSE raw

\* float(x) / int(x) on a raw value: the parsed number, or the exception raised.
Parse(raw) ==
    CASE raw.k = "num"  -> [ok |-> TRUE, n |-> raw.n, exc |-> "none"]
      [] raw.k = "bad"  -> [ok |-> FALSE, n |-> 0, exc |-> "ValueError"]
      [] raw.k = "null" -> [ok |-> FALSE, n |-> 0, exc |-> "TypeError"]
      [] OTHER          -> [ok |-> FALSE, n |-> 0, exc |-> "TypeError"]

(***************************************************************************)
(* Ratios are kept exact, as a fraction n/d of percent: the code's float   *)
(* expressions (x / y * 100) compare with the thresholds the same way for  *)
(* every value of the input sets below.                                    *)
(***************************************************************************)
Ratio(n, d) == [n |-> n, d |-> d]
RatioLt(r, c) == r.n < c * r.d
RatioGt(r, c) == r.n > c * r.d
RatioEq(r, c) == r.n = c * r.d

Range(s) == {s[i] : i \in DOMAIN s}
Max(a, b) == IF a >= b THEN a ELSE b

\* The threshold constants of the cache rules.
LowHitRatio      == 30
GoodHitRatio     == 80
TrafficThreshold == 10000
HighMemoryUsage  == 95
LowMemoryUsage   == 20
HighFragmentation == 20
PruneDivisor     == 3

\* The messages of the cache rules.
MsgDisabled      == "Query Cache is currently disabled"
MsgLowHit        == "Low Query Cache hit ratio (<30%)"
MsgIncreaseTraffic == "Consider increasing query_cache_size as there's significant query traffic"
MsgGoodHit       == "Query Cache hit ratio is good (>80%)"
MsgHighMem       == "Query Cache memory usage is very high (>95%)"
MsgIncrease      == "Consider increasing query_cache_size"
MsgLowMem        == "Query Cache memory usage is very low (<20%)"
MsgDecrease      == "Consider decreasing query_cache_size to free up memory"
MsgFragmented    == "High Query Cache fragmentation (>20%)"
MsgFlush         == "Consider running FLUSH QUERY CACHE"
MsgPrunes        == "High number of queries removed due to low memory"
MsgIncreaseOrLimit == "Consider increasing query_cache_size or reducing query_cache_limit"

\* A hit ratio taken over the inserts alone.
HitRatioOverInserts(hits, inserts) ==
    IF inserts > 0 THEN Ratio(hits * 100, inserts) ELSE Ratio(0, 1)

\* hit_ratio = (hits / queries * 100) if queries > 0 else 0
HitRatio(hits, inserts) ==
    IF hits + inserts > 0 THEN Ratio(hits * 100, hits + inserts) ELSE Ratio(0, 1)

(***************************************************************************)
(* The metric block of analyze_query_cache (the inner try).  A float()     *)
(* that fails or a division by zero leaves the block through its except    *)
(* clause (ValueError, ZeroDivisionError) or, for a TypeError, through the  *)
(* outer one; in both cases the call returns None.                         *)
(***************************************************************************)
Metrics(status, config) ==
    LET hits    == Parse(Get(status.Qcache_hits, 0))
        inserts == Parse(Get(status.Qcache_inserts, 0))
        total_blocks == Parse(Get(status.Qcache_total_blocks, 1))
        free_blocks  == Parse(Get(status.Qcache_free_blocks, 0))
        memory_usage == Parse(Get(status.Qcache_free_memory, 0))
        total_memory == Parse(Get(config.query_cache_size, 1))
        none == [ok |-> FALSE, exc |-> "none", queries |-> 0,
                 hit_ratio |-> Ratio(0, 1), fragmentation_ratio |-> Ratio(0, 1),
                 memory_usage_ratio |-> Ratio(0, 1)]
        fail(e) == [none EXCEPT !.exc = e]
    IN  IF ~hits.ok THEN fail(hits.exc)
        ELSE IF ~inserts.ok THEN fail(inserts.exc)
        ELSE IF ~total_blocks.ok THEN fail(total_blocks.exc)
        ELSE IF ~free_blocks.ok THEN fail(free_blocks.exc)
        ELSE IF total_blocks.n = 0 THEN fail("ZeroDivisionError")
        ELSE IF ~memory_usage.ok THEN fail(memory_usage.exc)
        ELSE IF ~total_memory.ok THEN fail(total_memory.exc)
        ELSE IF total_memory.n = 0 THEN fail("ZeroDivisionError")
        ELSE [ok |-> TRUE, exc |-> "none",
              queries |-> hits.n + inserts.n,
              hit_ratio |-> HitRatio(hits.n, inserts.n),
              fragmentation_ratio |-> Ratio(free_blocks.n * 100, total_blocks.n),
              memory_usage_ratio |->
                  Ratio((total_memory.n - memory_usage.n) * 100, total_memory.n)]

\* One rule's contribution: the warnings and recommendations it appends.
Out(w, r) == [w |-> w, r |-> r]
NoOut == Out(<<>>, <<>>)

\* A hit-ratio rule that recommends a larger cache whatever the traffic is.
HitRatioRuleAnyTraffic(hit_ratio, queries) ==
    IF RatioLt(hit_ratio, LowHitRatio)
    THEN Out(<<MsgLowHit>>, <<MsgIncreaseTraffic>>)
    ELSE IF RatioGt(hit_ratio, GoodHitRatio) THEN Out(<<>>, <<MsgGoodHit>>)
    ELSE NoOut

\* A hit-ratio rule whose upper band starts at the threshold itself.
HitRatioRuleInclusive(hit_ratio, queries) ==
    IF RatioLt(hit_ratio, LowHitRatio)
    THEN Out(<<MsgLowHit>>,
             IF queries > TrafficThreshold THEN <<MsgIncreaseTraffic>> ELSE <<>>)
    ELSE IF ~RatioLt(hit_ratio, GoodHitRatio) THEN Out(<<>>, <<MsgGoodHit>>)
    ELSE NoOut

\* "Analyze hit ratio"
HitRatioRule(hit_ratio, queries) ==
    IF RatioLt(hit_ratio, LowHitRatio)
    THEN Out(<<MsgLowHit>>,
             IF queries > TrafficThreshold THEN <<MsgIncreaseTraffic>> ELSE <<>>)
    ELSE IF RatioGt(hit_ratio, GoodHitRatio) THEN Out(<<>>, <<MsgGoodHit>>)
    ELSE NoOut

\* A memory-usage rule whose high band starts at the threshold itself.
MemoryUsageRuleInclusive(memory_usage_ratio) ==
    IF ~RatioLt(memory_usage_ratio, HighMemoryUsage)
    THEN Out(<<MsgHighMem>>, <<MsgIncrease>>)
    ELSE IF RatioLt(memory_usage_ratio, LowMemoryUsage)
    THEN Out(<<MsgLowMem>>, <<MsgDecrease>>)
    ELSE NoOut

\* "Analyze memory usage"
MemoryUsageRule(memory_usage_ratio) ==
    IF RatioGt(memory_usage_ratio, HighMemoryUsage)
    THEN Out(<<MsgHighMem>>, <<MsgIncrease>>)
    ELSE IF RatioLt(memory_usage_ratio, LowMemoryUsage)
    THEN Out(<<MsgLowMem>>, <<MsgDecrease>>)
    ELSE NoOut

\* "Analyze fragmentation"
FragmentationRule(fragmentation_ratio) ==
    IF RatioGt(fragmentation_ratio, HighFragmentation)
    THEN Out(<<MsgFragmented>>, <<MsgFlush>>)
    ELSE NoOut

\* "Analyze low memory conditions": int(prunes) > int(inserts) / 3
LowMemPruneRule(prunes, inserts) ==
    IF prunes * PruneDivisor > inserts
    THEN Out(<<MsgPrunes>>, <<MsgIncreaseOrLimit>>)
    ELSE NoOut

\* The value analyze_query_cache returns when it gives up: None.
NoReport(exc) ==
    [outcome |-> "none", exc |-> exc, warnings |-> <<>>, recommendations |-> <<>>,
     queries |-> 0, hit_ratio |-> Ratio(0, 1), fragmentation_ratio |-> Ratio(0, 1),
     memory_usage_ratio |-> Ratio(0, 1)]

\* A disabled-check that tests for the numeric spelling of the setting.
CacheDisabledNumeric(config) == config.query_cache_type = "0"

\* cache_config.get('query_cache_type') == 'OFF'
CacheDisabled(config) == config.query_cache_type = "OFF"

\* The rules with fragmentation ahead of memory usage.
CacheRulesFragmentationFirst(status, config, m) ==
    IF CacheDisabled(config)
    THEN [ok |-> TRUE, exc |-> "none", w |-> <<MsgDisabled>>, r |-> <<>>]
    ELSE LET hr == HitRatioRule(m.hit_ratio, m.queries)
             mu == MemoryUsageRule(m.memory_usage_ratio)
             fr == FragmentationRule(m.fragmentation_ratio)
             prunes  == Parse(Get(status.Qcache_lowmem_prunes, 0))
             inserts == Parse(Get(status.Qcache_inserts, 0))
         IN  IF ~prunes.ok THEN [ok |-> FALSE, exc |-> prunes.exc, w |-> <<>>, r |-> <<>>]
             ELSE IF ~inserts.ok
             THEN [ok |-> FALSE, exc |-> inserts.exc, w |-> <<>>, r |-> <<>>]
             ELSE LET lm == LowMemPruneRule(prunes.n, inserts.n)
                  IN  [ok |-> TRUE, exc |-> "none",
                       w |-> hr.w \o fr.w \o mu.w \o lm.w,
                       r |-> hr.r \o fr.r \o mu.r \o lm.r]

\* The "Check if Query Cache is enabled" branch, given the computed metrics.
CacheRules(status, config, m) ==
    IF CacheDisabled(config)
    THEN [ok |-> TRUE, exc |-> "none", w |-> <<MsgDisabled>>, r |-> <<>>]
    ELSE LET hr == HitRatioRule(m.hit_ratio, m.queries)
             mu == MemoryUsageRule(m.memory_usage_ratio)
             fr == FragmentationRule(m.fragmentation_ratio)
             prunes  == Parse(Get(status.Qcache_lowmem_prunes, 0))
             inserts == Parse(Get(status.Qcache_inserts, 0))
         IN  IF ~prunes.ok THEN [ok |-> FALSE, exc |-> prunes.exc, w |-> <<>>, r |-> <<>>]
             ELSE IF ~inserts.ok
             THEN [ok |-> FALSE, exc |-> inserts.exc, w |-> <<>>, r |-> <<>>]
             ELSE LET lm == LowMemPruneRule(prunes.n, inserts.n)
                  IN  [ok |-> TRUE, exc |-> "none",
                       w |-> hr.w \o mu.w \o fr.w \o lm.w,
                       r |-> hr.r \o mu.r \o fr.r \o lm.r]

\* analyze_query_cache after the two SHOW queries succeeded.
Evaluate(status, config) ==
    LET m == Metrics(status, config)
    IN  IF ~m.ok THEN NoReport(m.exc)
        ELSE LET c == CacheRules(status, config, m)
             IN  IF ~c.ok THEN NoReport(c.exc)
                 ELSE [outcome |-> "report", exc |-> "none",
                       warnings |-> c.w, recommendations |-> c.r,
                       queries |-> m.queries, hit_ratio |-> m.hit_ratio,
                       fragmentation_ratio |-> m.fragmentation_ratio,
                       memory_usage_ratio |-> m.memory_usage_ratio]

\* The snapshots the evaluator is run on.
HitsVals        == {Missing, Num(0), Num(20), Num(80), Num(81)}
InsertsVals     == {Missing, Num(0), Num(19), Num(20), Num(80), Num(10001)}
TotalBlocksVals == {Missing, Num(0), Num(5), Bad}
FreeBlocksVals  == {Missing, Num(1), Num(2)}
FreeMemoryVals  == {Missing, Num(4), Num(5), Num(80), Num(81)}
CacheSizeVals   == {Missing, Num(0), Num(100), Null}
PrunesVals      == {Missing, Num(6), Num(7), Bad}
CacheTypeVals   == {"OFF", "ON", "DEMAND", "absent"}

StatusSnapshots ==
    [Qcache_hits : HitsVals, Qcache_inserts : InsertsVals,
     Qcache_total_blocks : TotalBlocksVals, Qcache_free_blocks : FreeBlocksVals,
     Qcache_free_memory : FreeMemoryVals, Qcache_lowmem_prunes : PrunesVals]

ConfigSnapshots ==
    [query_cache_size : CacheSizeVals, query_cache_type : CacheTypeVals]

NotRun == NoReport("not run")

QcStart ==
    /\ cache_status \in StatusSnapshots
    /\ cache_config \in ConfigSnapshots
    /\ qcDb \in {"up", "down"}
    /\ qcPc = "start"
    /\ qcResult = NotRun
    /\ qcConn = "none"

\* The whole call as a function of what the server does: connect, two
\* queries, metrics, rules, close, return.
QueryCacheCall(db, status, config) ==
    IF db = "down" THEN NoReport("mysql.connector.Error") ELSE Evaluate(status, config)

\* cursor.close() / conn.close() are reached on the normal path only.
QueryCacheConn(db, result) ==
    IF db = "down" THEN "none"
    ELSE IF result.outcome = "report" THEN "closed" ELSE "open"

analyze_query_cache ==
    /\ qcPc = "start"
    /\ qcPc' = "done"
    /\ qcResult' = QueryCacheCall(qcDb, cache_status, cache_config)
    /\ qcConn' = QueryCacheConn(qcDb, qcResult')
    /\ UNCHANGED <<cache_status, cache_config, qcDb>>
    /\ UNCHANGED <<sinkVars, runVars, advVars, extVars>>

(***************************************************************************)
(* Report values.  A value is a tagged tree: t is the Python type, s the   *)
(* payload of a scalar, items the members of a container (the keys of a    *)
(* mapping and the field names of a record are left out).                  *)
(***************************************************************************)
Val(t, sv, items) == [t |-> t, s |-> sv, items |-> items]
Atom(t, sv) == Val(t, sv, <<>>)

IntV      == Atom("int", "1")
StrV      == Atom("str", "a")
NoneV     == Atom("none", "")
DateTimeV == Atom("datetime", "2024-01-01T00:00:00")
BytesV    == Atom("bytes", "b")
BadBytesV == Atom("bytes", "\\xff")     \* bytes that are not valid UTF-8
OpaqueV   == Atom("opaque", "Decimal('1')")

PrimitiveTypes == {"int", "float", "str", "bool", "none"}

SeqMap(Op(_), sq) == [i \in DOMAIN sq |-> Op(sq[i])]

\* Whether _convert_to_serializable(data) raises (bytes.decode on invalid UTF-8).
RECURSIVE ConvertRaises(_)
ConvertRaises(data) ==
    CASE data.t \in {"namedtuple", "object"} -> FALSE
      [] data.t = "bytes" -> data = BadBytesV
      [] data.t \in {"list", "tuple", "dict"} ->
            \E i \in DOMAIN data.items : ConvertRaises(data.items[i])
      [] OTHER -> FALSE

RECURSIVE ConvertToSerializable(_)
\* A conversion that leaves tuples as tuples.
ConvertKeepingTuples(data) ==
    CASE data.t = "namedtuple" -> Val("dict", "", data.items)
      [] data.t = "object"     -> Val("dict", "", data.items)
      [] data.t = "datetime"   -> Atom("str", data.s)
      [] data.t = "bytes"      -> Atom("str", data.s)
      [] data.t \in PrimitiveTypes -> data
      [] data.t \in {"list", "tuple"} ->
            Val(data.t, "", SeqMap(ConvertToSerializable, data.items))
      [] data.t = "dict" ->
            Val("dict", "", SeqMap(ConvertToSerializable, data.items))
      [] OTHER -> Atom("str", data.s)

\* _convert_to_serializable(data), branch by branch in the order of the code.
ConvertToSerializable(data) ==
    CASE data.t = "namedtuple" -> Val("dict", "", data.items)   \* dict(data._asdict())
      [] data.t = "object"     -> Val("dict", "", data.items)   \* dict(data.__dict__)
      [] data.t = "datetime"   -> Atom("str", data.s)           \* isoformat()
      [] data.t = "bytes"      -> Atom("str", data.s)           \* decode('utf-8')
      [] data.t \in PrimitiveTypes -> data
      [] data.t \in {"list", "tuple"} ->
            Val("list", "", SeqMap(ConvertToSerializable, data.items))
      [] data.t = "dict" ->
            Val("dict", "", SeqMap(ConvertToSerializable, data.items))
      [] OTHER -> Atom("str", data.s)                            \* str(data)

\* Whether json.dump accepts the value: the default encoder knows mappings,
\* lists, tuples (records included) and the primitive scalars, nothing else.
RECURSIVE JsonSerializable(_)
JsonSerializable(v) ==
    CASE v.t \in PrimitiveTypes -> TRUE
      [] v.t \in {"list", "tuple", "dict", "namedtuple"} ->
            \A i \in DOMAIN v.items : JsonSerializable(v.items[i])
      [] OTHER -> FALSE

\* {"system": x}: a report with one section.
Report(x) == Val("dict", "", <<x>>)

\* The reports handed to the sink.
SinkInputs ==
    { Report(IntV),
      Report(DateTimeV),
      Report(BadBytesV),
      Report(Val("list", "", <<DateTimeV>>)),
      Report(Val("namedtuple", "", <<IntV>>)),
      Report(Val("namedtuple", "", <<DateTimeV>>)),
      Report(Val("object", "", <<OpaqueV>>)) }

\* The clock: TicksPerSecond ticks make one second of the file name stamp.
TicksPerSecond == 2
MaxTime  == 3       \* the clock stops here
MaxSaves == 2       \* save_report calls recorded
MaxElapsed == 1     \* ticks that pass between two clock readings of one call

\* datetime.now().strftime('%Y%m%d_%H%M%S'): the stamp has one-second resolution.
Stamp(t) == t \div TicksPerSecond

Stamps == 0 .. Stamp(MaxTime + MaxElapsed)

NoData == Atom("none", "")
Absent == [status |-> "absent", timestamp |-> 0, data |-> NoData]

\* prepare_report_data: metadata.timestamp and the converted data.
PrepareReportData(data, t) ==
    [status |-> "complete", timestamp |-> t, data |-> ConvertToSerializable(data)]

SinkStart ==
    /\ now = 0
    /\ files = [p \in Stamps |-> Absent]
    /\ returned = <<>>
    /\ sinkLast = [n |-> 0, outcome |-> "none", exc |-> "none", path |-> 0,
                   before |-> [p \in Stamps |-> Absent]]

\* Time passes between calls.
Tick ==
    /\ now < MaxTime
    /\ now' = now + 1
    /\ UNCHANGED <<files, returned, sinkLast>>
    /\ UNCHANGED <<qcVars, runVars, advVars, extVars>>

(***************************************************************************)
(* save_report(report_data): prepare the structure, read the clock again   *)
(* for the file name, open the file for writing and stream the JSON text   *)
(* into it.  io is what the file system does: "ok", "open_fails" (open     *)
(* raises OSError) or "write_fails" (a write raises OSError).              *)
(***************************************************************************)
save_report(report_data, elapsed, io) ==
    /\ sinkLast.n < MaxSaves
    /\ now + elapsed <= MaxTime + MaxElapsed
    /\ now' = now + elapsed
    /\ LET structured_data == PrepareReportData(report_data, now)
           filepath == Stamp(now + elapsed)
           last(o, e) == [n |-> sinkLast.n + 1, outcome |-> o, exc |-> e,
                          path |-> filepath, before |-> files]
       IN  IF ConvertRaises(report_data)
           THEN \* raised inside prepare_report_data: nothing was opened
                /\ files' = files
                /\ returned' = returned
                /\ sinkLast' = last("raised", "UnicodeDecodeError")
           ELSE IF io = "open_fails"
           THEN /\ files' = files
                /\ returned' = returned
                /\ sinkLast' = last("raised", "OSError")
           ELSE IF io = "write_fails" \/ ~JsonSerializable(structured_data.data)
           THEN \* open(filepath, 'w') created or emptied the file; json.dump
                \* raised part-way and the with block closed what was written
                /\ files' = [files EXCEPT ![filepath] =
                                [structured_data EXCEPT !.status = "truncated"]]
                /\ returned' = returned
                /\ sinkLast' = last("raised",
                                    IF JsonSerializable(structured_data.data)
                                    THEN "OSError" ELSE "TypeError")
           ELSE /\ files' = [files EXCEPT ![filepath] = structured_data]
                /\ returned' = Append(returned, filepath)
                /\ sinkLast' = last("returned", "none")
    /\ UNCHANGED <<qcVars, runVars, advVars, extVars>>

IoOutcomes == {"ok", "open_fails", "write_fails"}

SaveReport ==
    \E d \in SinkInputs, e \in 0 .. MaxElapsed, io \in IoOutcomes :
        save_report(d, e, io)

(***************************************************************************)
(* The orchestrator, SystemMySQLMonitor.generate_report.  Each adapter     *)
(* returns "data", a sentinel ("None" or "error string"), or leaves by an  *)
(* exception ("raised").                                                   *)
(***************************************************************************)

\* get_system_resources: except Exception: print; raise
get_system_resources(in) == IF in.sys = "fail" THEN "raised" ELSE "data"

\* check_mysql_service: except Exception: print; raise
check_mysql_service(in) ==
    CASE in.proc = "fail"  -> "raised"
      [] in.proc = "empty" -> "empty list"
      [] OTHER             -> "data"

\* A get_mysql_status that raises, as its docstring announces.
get_mysql_status_raising(in) == IF in.status = "fail" THEN "raised" ELSE "data"

\* get_mysql_status: both except clauses return the error text
get_mysql_status(in) == IF in.status = "fail" THEN "error string" ELSE "data"

\* get_table_statistics, called only with enable_tables
get_table_statistics(in) ==
    IF ~in.enable_tables THEN "None"
    ELSE IF in.tables = "fail" THEN "None" ELSE "data"

\* A get_innodb_metrics that lets the connection error through.
get_innodb_metrics_raising(in) == IF in.innodb = "fail" THEN "raised" ELSE "data"

\* get_innodb_metrics: except Exception: return None
get_innodb_metrics(in) == IF in.innodb = "fail" THEN "None" ELSE "data"

\* get_slow_queries: None on an error and when the slow query log is off
get_slow_queries(in) == IF in.slow \in {"fail", "off"} THEN "None" ELSE "data"

\* get_performance_schema_metrics: except Exception: return None
get_performance_schema_metrics(in) == IF in.perf = "fail" THEN "None" ELSE "data"

Section(name, body) == [name |-> name, body |-> body]

\* format_cpu_freq: 'N/A' when cpu_freq() gave None
FormatCpuFreq(freq) == IF freq = "None" THEN "N/A" ELSE freq

\* "=== SYSTEM METRICS ===": [CPU], [MEMORY] (ram and swap), [DISK]
SystemSection(in) ==
    Section("SYSTEM METRICS",
            <<"[CPU]", in.cpu_percent, FormatCpuFreq(in.freq),
              "[MEMORY]", "ram", "swap", "[DISK]", "disk">>)

\* if system_resources: ...
SystemPart(system_resources, in) ==
    IF system_resources = "data" THEN <<SystemSection(in)>> ELSE <<>>

\* "=== MYSQL METRICS ===": the error text, or the metric blocks
MysqlPart(mysql_stats, mysql_processes) ==
    IF mysql_stats = "error string"
    THEN <<Section("MYSQL METRICS", <<"[ERROR]">>)>>
    ELSE <<Section("MYSQL METRICS",
                   (IF mysql_processes = "data" THEN <<"[MYSQL PROCESSES]">> ELSE <<>>)
                   \o <<"[CONNECTION METRICS]", "[QUERY METRICS]", "[BUFFER AND CACHE]",
                        "[INNODB METRICS]", "[ACTIVE PROCESSES]">>)>>

OptionalSection(present, name) ==
    IF present THEN <<Section(name, <<>>)>> ELSE <<>>

\* The report text, section by section in the order generate_report appends.
ReportText(in, query_cache_report, r) ==
    <<Section("HEADER", <<"Timestamp", "MYSQL CONFIGURATION">>)>>
    \o SystemPart(r.system_resources, in)
    \o MysqlPart(r.mysql_stats, r.mysql_processes)
    \o OptionalSection(query_cache_report.outcome = "report", "QUERY CACHE ANALYSIS")
    \o OptionalSection(in.enable_tables /\ r.table_stats = "data", "TABLE STATISTICS")
    \o OptionalSection(r.innodb_metrics = "data", "INNODB DETAILED METRICS")
    \o OptionalSection(r.slow_queries = "data", "TOP 10 SLOW QUERIES")
    \o OptionalSection(r.perf_schema_metrics = "data", "PERFORMANCE SCHEMA METRICS")

\* The adapters in the order generate_report calls them (analyze_query_cache,
\* which never raises, comes after get_mysql_status).
AdapterOrder ==
    <<"system_resources", "mysql_processes", "mysql_stats", "table_stats",
      "innodb_metrics", "slow_queries", "perf_schema_metrics">>

\* What each adapter would return if it were called.
AdapterCall(in) ==
    [system_resources    |-> get_system_resources(in),
     mysql_processes     |-> check_mysql_service(in),
     mysql_stats         |-> get_mysql_status(in),
     table_stats         |-> get_table_statistics(in),
     innodb_metrics      |-> get_innodb_metrics(in),
     slow_queries        |-> get_slow_queries(in),
     perf_schema_metrics |-> get_performance_schema_metrics(in)]

\* What the adapters return, in call order: once one raises, the rest of the
\* try block is skipped.
AdapterReturns(in) ==
    LET c == AdapterCall(in)
        skipped(i) == \E j \in 1 .. (i - 1) : c[AdapterOrder[j]] = "raised"
    IN  [a \in Range(AdapterOrder) |->
            LET i == CHOOSE k \in DOMAIN AdapterOrder : AdapterOrder[k] = a
            IN  IF skipped(i) THEN "not called" ELSE c[a]]

\* Whether the run leaves the try block by an exception: an adapter raised,
\* or a top query carries a NULL text (None[:200] is a TypeError).
RunRaises(in, r) ==
    \/ \E a \in DOMAIN r : r[a] = "raised"
    \/ r.perf_schema_metrics = "data" /\ in.perf = "null_query"

\* generate_report as a function of what the adapters meet.
GenerateReport(in, query_cache_report) ==
    LET r == AdapterReturns(in)
    IN  IF RunRaises(in, r)
        THEN [outcome |-> "raised", persisted |-> FALSE, returns |-> r, report |-> <<>>]
        ELSE [outcome |-> "saved", persisted |-> TRUE, returns |-> r,
              report |-> ReportText(in, query_cache_report, r)]

RunInputs ==
    [sys : {"ok", "fail"}, cpu_percent : {"12.5"}, freq : {"None", "2400.00"},
     proc : {"ok", "empty", "fail"}, status : {"ok", "fail"},
     enable_tables : BOOLEAN, tables : {"ok", "fail"}, innodb : {"ok", "fail"},
     slow : {"ok", "off", "fail"}, perf : {"ok", "null_query", "fail"}]

IdleInput ==
    [sys |-> "ok", cpu_percent |-> "12.5", freq |-> "None", proc |-> "ok",
     status |-> "ok", enable_tables |-> FALSE, tables |-> "ok", innodb |-> "ok",
     slow |-> "ok", perf |-> "ok"]

NoRun == [outcome |-> "none", persisted |-> FALSE,
          returns |-> AdapterReturns(IdleInput), report |-> <<>>]

\* The cache snapshots of a run: a server without the query cache variables,
\* and one that reports a disabled, empty cache.
NoCacheStatus ==
    [Qcache_hits |-> Missing, Qcache_inserts |-> Missing,
     Qcache_total_blocks |-> Missing, Qcache_free_blocks |-> Missing,
     Qcache_free_memory |-> Missing, Qcache_lowmem_prunes |-> Missing]
EmptyCacheStatus ==
    [NoCacheStatus EXCEPT !.Qcache_hits = Num(0), !.Qcache_inserts = Num(0),
                          !.Qcache_total_blocks = Num(0)]

RunStart ==
    /\ runIn \in RunInputs
    /\ runPc = "start"
    /\ runResult = NoRun
    /\ cache_status \in {NoCacheStatus, EmptyCacheStatus}
    /\ cache_config = [query_cache_size |-> Missing, query_cache_type |-> "absent"]
    /\ qcDb \in {"up", "down"}
    /\ qcPc = "idle"
    /\ qcResult = NotRun
    /\ qcConn = "none"

RunIdle ==
    /\ runIn = IdleInput
    /\ runPc = "idle"
    /\ runResult = NoRun

\* The whole run.  analyze_query_cache is called once the two process-level
\* adapters and get_mysql_status have returned.
generate_report ==
    /\ runPc = "start"
    /\ runPc' = "done"
    /\ LET reached == get_system_resources(runIn) # "raised"
                      /\ check_mysql_service(runIn) # "raised"
           query_cache_report ==
               IF reached THEN QueryCacheCall(qcDb, cache_status, cache_config)
               ELSE NotRun
       IN  /\ runResult' = GenerateReport(runIn, query_cache_report)
           /\ qcResult' = query_cache_report
           /\ qcConn' = IF reached THEN QueryCacheConn(qcDb, query_cache_report)
                        ELSE "none"
    /\ UNCHANGED <<runIn, cache_status, cache_config, qcDb, qcPc>>
    /\ UNCHANGED <<sinkVars, advVars, extVars>>

(***************************************************************************)
(* The advisory bridge, AnthropicHandler._process_ai_response.  A response *)
(* is the text as json.loads sees it: invalid, or a value of some JSON     *)
(* type.  A command object gives each of its six fields as "absent", as    *)
(* "null" (JSON null) or as a value.                                       *)
(***************************************************************************)
CmdFields == {"id", "action", "priority", "target_service", "parameters", "rationale"}
Priorities == {"high", "medium", "low"}

Cmd(id, action, priority, target_service, parameters, rationale) ==
    [t |-> "object", id |-> id, action |-> action, priority |-> priority,
     target_service |-> target_service, parameters |-> parameters,
     rationale |-> rationale]

\* An element of the commands list that is not an object.
NonObject(t) ==
    [t |-> t, id |-> "absent", action |-> "absent", priority |-> "absent",
     target_service |-> "absent", parameters |-> "absent", rationale |-> "absent"]

\* dict.get(key, default): the default replaces an absent key only, a key
\* present with null or with any other value is returned as it is.
GetOr(value, default) == IF value = "absent" THEN default ELSE value

\* A repair that reads priority without a default.
ProcessCmdNoPriorityDefault(cmd, uuid) ==
    [id             |-> GetOr(cmd.id, uuid),
     action         |-> GetOr(cmd.action, "unknown_action"),
     priority       |-> GetOr(cmd.priority, "null"),
     target_service |-> GetOr(cmd.target_service, "mysql"),
     parameters     |-> GetOr(cmd.parameters, "{}"),
     rationale      |-> GetOr(cmd.rationale, "No rationale provided")]

\* processed_cmd = {...}: uuid is the text str(uuid.uuid4())[:8] would give.
ProcessCmd(cmd, uuid) ==
    [id             |-> GetOr(cmd.id, uuid),
     action         |-> GetOr(cmd.action, "unknown_action"),
     priority       |-> GetOr(cmd.priority, "medium"),
     target_service |-> GetOr(cmd.target_service, "mysql"),
     parameters     |-> GetOr(cmd.parameters, "{}"),
     rationale      |-> GetOr(cmd.rationale, "No rationale provided")]

\* A loop that gives the whole batch up at the first element that is not an
\* object.
ProcessCommandsStrict(commands, uuids) ==
    IF \E i \in DOMAIN commands : commands[i].t # "object" THEN <<>>
    ELSE [i \in DOMAIN commands |-> ProcessCmd(commands[i], uuids[i])]

\* for cmd in commands: if isinstance(cmd, dict): processed_commands.append(...)
RECURSIVE ProcessCommands(_, _)
ProcessCommands(commands, uuids) ==
    IF commands = <<>> THEN <<>>
    ELSE LET cmd  == Head(commands)
             rest == ProcessCommands(Tail(commands), Tail(uuids))
         IN  IF cmd.t = "object" THEN <<ProcessCmd(cmd, Head(uuids))>> \o rest
             ELSE rest

\* The value the loop iterates over, or "raises" when it cannot be iterated.
\* A string iterates over its characters and a mapping over its keys: no
\* element of either is an object.
ExtractCommands(response) ==
    CASE response.top = "invalid" -> [raises |-> TRUE, commands |-> <<>>]
      [] response.top = "list"    -> [raises |-> FALSE, commands |-> response.elems]
      [] response.top = "object"  ->
            CASE response.commands = "absent" -> [raises |-> FALSE, commands |-> <<>>]
              [] response.commands = "list" ->
                    [raises |-> FALSE, commands |-> response.elems]
              [] response.commands \in {"string", "object"} ->
                    [raises |-> FALSE, commands |-> <<>>]
              [] OTHER -> [raises |-> TRUE, commands |-> <<>>]    \* null, a number
      [] OTHER -> [raises |-> FALSE, commands |-> <<>>]            \* a scalar

\* _process_ai_response: both except clauses return [].
ProcessAiResponse(response, uuids) ==
    LET e == ExtractCommands(response)
    IN  IF e.raises THEN <<>> ELSE ProcessCommands(e.commands, uuids)

MaxCommands == 2    \* the longest commands list of a response

UuidPool == {"1a2b3c4d", "5e6f7a8b"}

FullCmd == Cmd("c1", "optimize_table", "high", "mysql", "params", "why")

\* The elements a commands list is built from.
Elements ==
    { FullCmd,
      Cmd("c2", "flush_cache", "absent", "mysql", "params", "absent"),
      Cmd("absent", "absent", "absent", "absent", "absent", "absent"),
      Cmd("c3", "optimize_table", "urgent", "mysql", "params", "why"),
      Cmd("c4", "optimize_table", "null", "mysql", "null", "null"),
      NonObject("string"),
      NonObject("null") }

CommandLists == UNION {[1 .. n -> Elements] : n \in 0 .. MaxCommands}

Responses ==
    {[top |-> "invalid", commands |-> "absent", elems |-> <<>>],
     [top |-> "scalar", commands |-> "absent", elems |-> <<>>]}
    \cup {[top |-> "object", commands |-> c, elems |-> <<>>] :
            c \in {"absent", "null", "string", "object"}}
    \cup {[top |-> t, commands |-> "list", elems |-> l] :
            t \in {"object", "list"}, l \in CommandLists}

AdvStart ==
    /\ advResponse \in Responses
    /\ advPc = "start"
    /\ advResult = <<>>

AdvIdle ==
    /\ advResponse = [top |-> "scalar", commands |-> "absent", elems |-> <<>>]
    /\ advPc = "idle"
    /\ advResult = <<>>

\* One call; the identifiers uuid4 hands out are a free choice.
process_ai_response ==
    /\ advPc = "start"
    /\ advPc' = "done"
    /\ \E uuids \in [1 .. Len(advResponse.elems) -> UuidPool] :
          advResult' = ProcessAiResponse(advResponse, uuids)
    /\ UNCHANGED advResponse
    /\ UNCHANGED <<qcVars, sinkVars, runVars, extVars>>

(***************************************************************************)
(* The advisory call: AnthropicHandler.analyze_report.                     *)
(***************************************************************************)
\* json.dumps(data, cls=DateTimeEncoder), and on any exception
\* json.dumps(_sanitize_data(data)): the prompt text, or "raised" when the
\* second json.dumps fails too (_sanitize_data leaves mapping keys alone).
FormatMonitoringData(data) ==
    CASE data = "plain"    -> "text"
      [] data = "datetime" -> "text"        \* DateTimeEncoder.default
      [] data = "opaque"   -> "text"        \* str(data) in _sanitize_data
      [] OTHER             -> "raised"      \* a key json cannot encode

MonitoringData == {"plain", "datetime", "opaque", "tuple_key"}

\* client.messages.create and response.content[0].text.
Transports == {"ok", "api_error", "empty_content", "no_text"}

AbsentList == [outcome |-> "returned", is_none |-> TRUE, commands |-> <<>>]

\* An analyze_report whose outer handler lets a transport error through.
AnalyzeReportUncaught(data, transport, response, uuids) ==
    IF FormatMonitoringData(data) = "raised" THEN AbsentList
    ELSE IF transport \in {"api_error", "empty_content"}
    THEN [outcome |-> "raised", is_none |-> FALSE, commands |-> <<>>]
    ELSE LET commands == IF transport = "no_text" THEN <<>>
                         ELSE ProcessAiResponse(response, uuids)
         IN  [outcome |-> "returned", is_none |-> commands = <<>>,
              commands |-> commands]

\* analyze_report: every exception of the try block ends in `return None`;
\* json.loads(None) raises inside _process_ai_response, which returns [];
\* `commands if commands else None` turns an empty list into None.
AnalyzeReport(data, transport, response, uuids) ==
    IF FormatMonitoringData(data) = "raised" THEN AbsentList
    ELSE IF transport \in {"api_error", "empty_content"} THEN AbsentList
    ELSE LET commands == IF transport = "no_text" THEN <<>>
                         ELSE ProcessAiResponse(response, uuids)
         IN  [outcome |-> "returned", is_none |-> commands = <<>>,
              commands |-> commands]

\* The response texts the advisory call is run on.
AnalyzeResponses ==
    { r \in Responses : \/ r.top # "list" /\ r.commands # "list"
                        \/ Len(r.elems) = 1
                        \/ r.top = "object" /\ r.elems = <<NonObject("null"), FullCmd>> }

IdleCall == [data |-> "plain", transport |-> "ok",
             response |-> [top |-> "scalar", commands |-> "absent", elems |-> <<>>]]

NotCalled == [outcome |-> "none", is_none |-> FALSE, commands |-> <<>>]

ArStart ==
    /\ arIn = IdleCall
    /\ arPc = "start"
    /\ arResult = NotCalled

ArIdle ==
    /\ arIn = IdleCall
    /\ arPc = "idle"
    /\ arResult = NotCalled

\* One call, on whatever the run persisted before it.
analyze_report ==
    /\ arPc = "start"
    /\ arPc' = "done"
    /\ \E data \in MonitoringData, transport \in Transports,
          response \in AnalyzeResponses :
          \E uuids \in [1 .. Len(response.elems) -> UuidPool] :
             /\ arIn' = [data |-> data, transport |-> transport,
                         response |-> response]
             /\ arResult' = AnalyzeReport(data, transport, response, uuids)
    /\ UNCHANGED <<qcVars, sinkVars, runVars, advVars, rtVars, cvVars, thVars, pmVars, ipVars>>

(***************************************************************************)
(* Reading a report back: ReportHandler.load_report over the JSON text     *)
(* json.dump wrote.  A JSON text is a tree of tokens: object, array,       *)
(* string, integer (a number without fraction or exponent), real, literal  *)
(* (true / false) and null.  The payload s of a dict is the kind of its    *)
(* keys: "" for strings, IntKeys for integers.                             *)
(***************************************************************************)
FloatV == Atom("float", "1.5")
BoolV  == Atom("bool", "True")
IntKeys == "int"

\* json writes True / False as true / false and reads them back.
BoolToJson(sv) == IF sv = "True" THEN "true" ELSE "false"
BoolFromJson(sv) == IF sv = "true" THEN "True" ELSE "False"

\* json.dump on a value its default encoder accepts: a mapping becomes an
\* object whose keys are coerced to strings, a list or a tuple an array.
RECURSIVE JsonDump(_)
JsonDump(v) ==
    CASE v.t = "dict"  -> Val("object", "", SeqMap(JsonDump, v.items))
      [] v.t \in {"list", "tuple", "namedtuple"} ->
            Val("array", "", SeqMap(JsonDump, v.items))
      [] v.t = "str"   -> Atom("string", v.s)
      [] v.t = "int"   -> Atom("integer", v.s)
      [] v.t = "float" -> Atom("real", v.s)
      [] v.t = "bool"  -> Atom("literal", BoolToJson(v.s))
      [] OTHER         -> Atom("null", "")

\* json.load: object -> dict, array -> list, string -> str, a number -> int
\* or float after its spelling, true / false -> bool, null -> None.
RECURSIVE JsonLoad(_)
JsonLoad(j) ==
    CASE j.t = "object"  -> Val("dict", "", SeqMap(JsonLoad, j.items))
      [] j.t = "array"   -> Val("list", "", SeqMap(JsonLoad, j.items))
      [] j.t = "string"  -> Atom("str", j.s)
      [] j.t = "integer" -> Atom("int", j.s)
      [] j.t = "real"    -> Atom("float", j.s)
      [] j.t = "literal" -> Atom("bool", BoolFromJson(j.s))
      [] OTHER           -> Atom("none", "")

NotLoaded == [outcome |-> "none", data |-> NoData]

\* load_report: open raises on a missing file, json.load on a truncated one.
LoadReport(file) ==
    IF file.status = "complete"
    THEN [outcome |-> "returned", data |-> JsonLoad(JsonDump(file.data))]
    ELSE [outcome |-> "raised", data |-> NoData]

MaxDepth == 2       \* containers nested in the report data

PrimitiveAtoms == {IntV, FloatV, StrV, BoolV, NoneV}

\* The containers json knows, holding nothing, one member, or a number and
\* one member.
ContainersOf(members) ==
    { Val(c[1], c[2], items) :
        c \in {<<"list", "">>, <<"tuple", "">>, <<"dict", "">>, <<"dict", IntKeys>>},
        items \in {<<>>} \cup {<<x>> : x \in members}
                        \cup {<<IntV, x>> : x \in members} }

RECURSIVE PrimitiveValues(_)
PrimitiveValues(depth) ==
    IF depth = 0 THEN PrimitiveAtoms
    ELSE PrimitiveAtoms \cup ContainersOf(PrimitiveValues(depth - 1))

\* Report data made of mappings, lists, strings, numbers, booleans and null.
RoundTripInputs == { Report(x) : x \in PrimitiveValues(MaxDepth) }

RtStart ==
    /\ rtData \in RoundTripInputs
    /\ rtPc = "start"
    /\ rtLoaded = NotLoaded

RtIdle ==
    /\ rtData = Report(NoneV)
    /\ rtPc = "idle"
    /\ rtLoaded = NotLoaded

\* save_report(d)
RoundTripSave ==
    /\ sinkLast.n = 0
    /\ rtPc = "start"
    /\ \E elapsed \in 0 .. MaxElapsed, io \in IoOutcomes :
          save_report(rtData, elapsed, io)

\* load_report(path) on the path save_report returned.
load_report ==
    /\ rtPc = "start"
    /\ sinkLast.outcome = "returned"
    /\ rtPc' = "loaded"
    /\ rtLoaded' = LoadReport(files[sinkLast.path])
    /\ UNCHANGED rtData
    /\ UNCHANGED <<qcVars, sinkVars, runVars, advVars, arVars, cvVars, thVars, pmVars, ipVars>>

(***************************************************************************)
(* The conversion on its own: ReportHandler._convert_to_serializable.      *)
(***************************************************************************)
AllAtoms == PrimitiveAtoms \cup {DateTimeV, BytesV, BadBytesV, OpaqueV}

\* Values nested depth deep: every container and record kind around one
\* member.
RECURSIVE ConvertValues(_)
ConvertValues(depth) ==
    IF depth = 0 THEN AllAtoms
    ELSE AllAtoms \cup
         { Val(c, "", <<x>>) :
             c \in {"list", "tuple", "dict", "namedtuple", "object"},
             x \in ConvertValues(depth - 1) }

NotConverted == [outcome |-> "none", value |-> NoData]

CvStart ==
    /\ cvData \in ConvertValues(MaxDepth)
    /\ cvPc = "start"
    /\ cvResult = NotConverted

CvIdle ==
    /\ cvData = NoneV
    /\ cvPc = "idle"
    /\ cvResult = NotConverted

\* One call of _convert_to_serializable.
convert_to_serializable ==
    /\ cvPc = "start"
    /\ cvPc' = "done"
    /\ cvResult' = IF ConvertRaises(cvData)
                   THEN [outcome |-> "raised", value |-> NoData]
                   ELSE [outcome |-> "returned",
                         value |-> ConvertToSerializable(cvData)]
    /\ UNCHANGED cvData
    /\ UNCHANGED <<qcVars, sinkVars, runVars, advVars, arVars, rtVars, thVars, pmVars, ipVars>>

(***************************************************************************)
(* Table health: TableStatistics.analyze_table_health.  A size is a number *)
(* or NULL (information_schema reports NULL sizes for a view); a table is  *)
(* named after its place in the result set.                                *)
(***************************************************************************)
LargeTableBytes == 1073741824       \* 1GB
FreeSpaceFifth  == 5                \* Free_Space > Data_Size * 0.2

MsgNoIndexes  == "has no indexes"
MsgAddIndexes == "Consider adding appropriate indexes to"
MsgLarge      == "is larger than 1GB"
MsgPartition  == "Consider partitioning"
MsgFreeSpace  == "has significant free space"
MsgOptimize   == "Consider running OPTIMIZE TABLE on"
MsgNoStats    == "No table statistics available"

\* f"Table {Database}.{Table} ...": the message and the table it names.
About(msg, table) == [msg |-> msg, table |-> table.Table]

\* A comparison of None with a number raises TypeError.
CheckRaises(table) == table.Data_Size.k # "num" \/ table.Free_Space.k # "num"

\* if table['Index_Size'] == 0        (None == 0 is False)
NoIndexCheck(table) == table.Index_Size = Num(0)

\* A large-table check that starts at the threshold itself.
LargeCheckInclusive(table) == table.Data_Size.n >= LargeTableBytes

\* if table['Data_Size'] > 1073741824
LargeCheck(table) == table.Data_Size.n > LargeTableBytes

\* if table['Free_Space'] > table['Data_Size'] * 0.2
FreeSpaceCheck(table) == table.Free_Space.n * FreeSpaceFifth > table.Data_Size.n

\* The three checks chained with elif: the first that holds wins.
TableChecksExclusive(table) ==
    IF NoIndexCheck(table)
    THEN Out(<<About(MsgNoIndexes, table)>>, <<About(MsgAddIndexes, table)>>)
    ELSE IF LargeCheck(table)
    THEN Out(<<About(MsgLarge, table)>>, <<About(MsgPartition, table)>>)
    ELSE IF FreeSpaceCheck(table)
    THEN Out(<<About(MsgFreeSpace, table)>>, <<About(MsgOptimize, table)>>)
    ELSE NoOut

\* The body of the loop for one table: three separate if statements.
TableChecks(table) ==
    LET ix == IF NoIndexCheck(table)
              THEN Out(<<About(MsgNoIndexes, table)>>, <<About(MsgAddIndexes, table)>>)
              ELSE NoOut
        lg == IF LargeCheck(table)
              THEN Out(<<About(MsgLarge, table)>>, <<About(MsgPartition, table)>>)
              ELSE NoOut
        fs == IF FreeSpaceCheck(table)
              THEN Out(<<About(MsgFreeSpace, table)>>, <<About(MsgOptimize, table)>>)
              ELSE NoOut
    IN  Out(ix.w \o lg.w \o fs.w, ix.r \o lg.r \o fs.r)

\* for table in stats['table_stats']: ...
RECURSIVE TableLoop(_)
TableLoop(tables) ==
    IF tables = <<>> THEN NoOut
    ELSE LET head == TableChecks(Head(tables))
             rest == TableLoop(Tail(tables))
         IN  Out(head.w \o rest.w, head.r \o rest.r)

\* analyze_table_health(stats): nothing catches the TypeError of a NULL size.
AnalyzeTableHealth(stats) ==
    IF stats.kind # "stats"
    THEN [outcome |-> "returned", warnings |-> <<[msg |-> MsgNoStats, table |-> 0]>>,
          recommendations |-> <<>>]
    ELSE IF \E i \in DOMAIN stats.table_stats : CheckRaises(stats.table_stats[i])
    THEN [outcome |-> "raised", warnings |-> <<>>, recommendations |-> <<>>]
    ELSE LET out == TableLoop(stats.table_stats)
         IN  [outcome |-> "returned", warnings |-> out.w, recommendations |-> out.r]

MaxTables == 2      \* rows of information_schema.tables

IndexSizeVals == {Num(0), Num(10)}
DataSizeVals  == {Num(0), Num(100), Num(LargeTableBytes), Num(LargeTableBytes + 1), Null}
FreeSpaceVals == {Num(0), Num(20), Num(30)}

\* The rows of a result set, not yet named.
TableRows ==
    [Table : {0}, Index_Size : IndexSizeVals, Data_Size : DataSizeVals,
     Free_Space : FreeSpaceVals]

\* The result sets of n rows: row i is table i.
TableLists(n) ==
    { [i \in 1 .. n |-> [rows[i] EXCEPT !.Table = i]] : rows \in [1 .. n -> TableRows] }

\* What get_table_statistics hands over: None, a dict without 'table_stats',
\* or the statistics.
StatsInputs(n) ==
    {[kind |-> k, table_stats |-> <<>>] : k \in {"None", "no_table_stats"}}
    \cup {[kind |-> "stats", table_stats |-> t] : t \in TableLists(n)}

NotAnalyzed == [outcome |-> "none", warnings |-> <<>>, recommendations |-> <<>>]

ThStart ==
    /\ \E n \in 0 .. MaxTables : thStats \in StatsInputs(n)
    /\ thPc = "start"
    /\ thResult = NotAnalyzed

ThIdle ==
    /\ thStats = [kind |-> "None", table_stats |-> <<>>]
    /\ thPc = "idle"
    /\ thResult = NotAnalyzed

\* One call of analyze_table_health.
analyze_table_health ==
    /\ thPc = "start"
    /\ thPc' = "done"
    /\ thResult' = AnalyzeTableHealth(thStats)
    /\ UNCHANGED thStats
    /\ UNCHANGED <<qcVars, sinkVars, runVars, advVars, arVars, rtVars, cvVars, pmVars, ipVars>>

(***************************************************************************)
(* Performance metrics: src/monitor/performance_monitor.py.  The three     *)
(* adapters each open a connection of their own; analyze_performance_      *)
(* metrics calls the three and evaluates three rules on what they return.  *)
(***************************************************************************)
MsgLowBufferPool   == "Low buffer pool hit ratio"
MsgIncreasePool    == "Consider increasing innodb_buffer_pool_size"
MsgManySlow        == "High number of slow queries detected"
MsgReviewSlow      == "Review and optimize slow queries"
MsgLongQueryTime   == "Consider increasing long_query_time if queries are acceptable"
MsgHighLatency     == "queries with high latency"
MsgReviewLatency   == "Review and optimize high latency queries"

\* A warning and the number its text carries (0 when the model drops it).
Warn(msg, n) == [msg |-> msg, n |-> n]

BufferPoolHitRatio  == 95
SlowQueryThreshold  == 5
HighLatencyMs       == 1000
SlowLogLimit        == 10
ReadsDefault        == 0
ReadRequestsDefault == 1

\* safe_int / safe_float: the number, or the default for None and for what
\* int() / float() reject.
SafeInt(raw, default) == IF raw.k = "num" THEN raw.n ELSE default
SafeFloat(raw, default) == IF raw.k = "num" THEN raw.n ELSE default

\* buffer_stats of a failed get_innodb_metrics: the empty dict.
EmptyBufferStats == [rows |-> FALSE, reads |-> Missing, read_requests |-> Missing]

\* The three adapters: what each returns and the state it leaves its
\* connection in ("none": never opened).
PerfInnodbMetrics(in) ==
    CASE in.db = "connect_fails" -> [buffer_stats |-> EmptyBufferStats, conn |-> "none"]
      [] in.db = "query_fails"   -> [buffer_stats |-> EmptyBufferStats, conn |-> "open"]
      [] OTHER -> [buffer_stats |-> [rows |-> in.rows, reads |-> in.reads,
                                     read_requests |-> in.read_requests],
                   conn |-> "closed"]

PerfSlowQueries(in) ==
    CASE in.db = "connect_fails" -> [slow_queries |-> 0, conn |-> "none"]
      [] in.db = "query_fails"   -> [slow_queries |-> 0, conn |-> "open"]
      [] in.slow_query_log = "ON" -> [slow_queries |-> in.n, conn |-> "open"]
      [] OTHER                   -> [slow_queries |-> 0, conn |-> "open"]

PerfSchemaMetrics(in) ==
    CASE in.db = "connect_fails" -> [top_queries |-> <<>>, conn |-> "none"]
      [] in.db = "query_fails"   -> [top_queries |-> <<>>, conn |-> "open"]
      [] OTHER                   -> [top_queries |-> in.top_queries, conn |-> "closed"]

\* The locals of the buffer-pool rule.
PoolReads(buffer_stats) == SafeInt(Get(buffer_stats.reads, ReadsDefault), 0)
PoolReadRequests(buffer_stats) ==
    SafeInt(Get(buffer_stats.read_requests, ReadRequestsDefault), 0)
PoolHitRatio(buffer_stats) ==
    Ratio((PoolReadRequests(buffer_stats) - PoolReads(buffer_stats)) * 100,
          PoolReadRequests(buffer_stats))

BufferPoolRule(buffer_stats) ==
    IF /\ buffer_stats.rows
       /\ PoolReadRequests(buffer_stats) > 0
       /\ RatioLt(PoolHitRatio(buffer_stats), BufferPoolHitRatio)
    THEN Out(<<Warn(MsgLowBufferPool, 0)>>, <<MsgIncreasePool>>)
    ELSE NoOut

SlowQueryRuleInclusive(slow_queries) ==
    IF slow_queries >= SlowQueryThreshold
    THEN Out(<<Warn(MsgManySlow, slow_queries)>>, <<MsgReviewSlow, MsgLongQueryTime>>)
    ELSE NoOut

\* slow_queries is the number of rows get_slow_queries returned.
SlowQueryRule(slow_queries) ==
    IF slow_queries > SlowQueryThreshold
    THEN Out(<<Warn(MsgManySlow, slow_queries)>>, <<MsgReviewSlow, MsgLongQueryTime>>)
    ELSE NoOut

HighLatencyInclusive(top_queries) ==
    SelectSeq(top_queries, LAMBDA q : SafeFloat(q, 0) >= HighLatencyMs)

\* high_latency_queries; a query is its avg_latency_ms as the driver gave it.
HighLatencyQueries(top_queries) ==
    SelectSeq(top_queries, LAMBDA q : SafeFloat(q, 0) > HighLatencyMs)

HighLatencyRule(top_queries) ==
    IF Len(HighLatencyQueries(top_queries)) > 0
    THEN Out(<<Warn(MsgHighLatency, Len(HighLatencyQueries(top_queries)))>>,
             <<MsgReviewLatency>>)
    ELSE NoOut

AnalyzePerformanceMetrics(in) ==
    LET innodb_metrics == PerfInnodbMetrics(in.innodb)
        slow == PerfSlowQueries(in.slow)
        perf_schema == PerfSchemaMetrics(in.perf)
        pool == BufferPoolRule(innodb_metrics.buffer_stats)
        slowOut == SlowQueryRule(slow.slow_queries)
        latency == HighLatencyRule(perf_schema.top_queries)
    IN  [warnings |-> pool.w \o slowOut.w \o latency.w,
         recommendations |-> pool.r \o slowOut.r \o latency.r,
         buffer_stats |-> innodb_metrics.buffer_stats,
         slow_queries |-> slow.slow_queries,
         top_queries |-> perf_schema.top_queries,
         conns |-> <<innodb_metrics.conn, slow.conn, perf_schema.conn>>]

\* Inputs: what each adapter meets.
MaxTopQueries == 2
DbOutcomes == {"ok", "connect_fails", "query_fails"}
ReadsVals == {Missing, Num(0), Num(5), Num(6), Num(500), Bad, Null}
ReadRequestsVals == {Missing, Num(0), Num(100), Bad, Null}
LatencyVals == {Num(0), Num(1000), Num(1001), Null}

InnodbInputs ==
    {[db |-> d, rows |-> FALSE, reads |-> Missing, read_requests |-> Missing] :
        d \in DbOutcomes}
    \cup {[db |-> "ok", rows |-> TRUE, reads |-> r, read_requests |-> q] :
            r \in ReadsVals, q \in ReadRequestsVals}

SlowInputs ==
    {[db |-> d, slow_query_log |-> "OFF", n |-> 0] : d \in DbOutcomes}
    \cup {[db |-> "ok", slow_query_log |-> "ON", n |-> n] : n \in 0 .. SlowLogLimit}

PerfInputs(len) ==
    {[db |-> d, top_queries |-> <<>>] : d \in DbOutcomes}
    \cup {[db |-> "ok", top_queries |-> t] : t \in [1 .. len -> LatencyVals]}

NoMetrics ==
    [innodb |-> [db |-> "connect_fails", rows |-> FALSE, reads |-> Missing,
                 read_requests |-> Missing],
     slow |-> [db |-> "connect_fails", slow_query_log |-> "OFF", n |-> 0],
     perf |-> [db |-> "connect_fails", top_queries |-> <<>>]]

NotMeasured ==
    [warnings |-> <<>>, recommendations |-> <<>>,
     buffer_stats |-> EmptyBufferStats, slow_queries |-> 0,
     top_queries |-> <<>>, conns |-> <<"none", "none", "none">>]

PmStart ==
    /\ \E i \in InnodbInputs, s \in SlowInputs, len \in 0 .. MaxTopQueries :
          \E p \in PerfInputs(len) : pmIn = [innodb |-> i, slow |-> s, perf |-> p]
    /\ pmPc = "start"
    /\ pmResult = NotMeasured

PmIdle ==
    /\ pmIn = NoMetrics
    /\ pmPc = "idle"
    /\ pmResult = NotMeasured

\* One call of analyze_performance_metrics.
analyze_performance_metrics ==
    /\ pmPc = "start"
    /\ pmPc' = "done"
    /\ pmResult' = AnalyzePerformanceMetrics(pmIn)
    /\ UNCHANGED pmIn
    /\ UNCHANGED <<qcVars, sinkVars, runVars, advVars, arVars, rtVars, cvVars, thVars, ipVars>>

(***************************************************************************)
(* Interactive approval: AnthropicHandler.process_commands_interactively.  *)
(* A typed answer is the sequence of its characters; one step of the model *)
(* is one input() call of the loop.                                        *)
(***************************************************************************)
Blanks == {" ", "\t"}

\* str.strip(): drops the blanks at both ends.
RECURSIVE StripLeft(_)
StripLeft(s) ==
    IF s # <<>> /\ Head(s) \in Blanks THEN StripLeft(Tail(s)) ELSE s

RECURSIVE StripRight(_)
StripRight(s) ==
    IF s # <<>> /\ s[Len(s)] \in Blanks
    THEN StripRight(SubSeq(s, 1, Len(s) - 1))
    ELSE s

Strip(s) == StripRight(StripLeft(s))

UpperChar(c) ==
    CASE c = "y" -> "Y"
      [] c = "n" -> "N"
      [] c = "x" -> "X"
      [] OTHER   -> c

UpperUnchanged(s) == s

\* str.upper().
Upper(s) == [i \in DOMAIN s |-> UpperChar(s[i])]

\* choice, as the loop computes it from what was typed.
Choice(raw) == Upper(Strip(raw))

MaxRetries == 2
CmdIds == {"c1", "c2"}
CommandInputs(n) == [1 .. n -> CmdIds]
ValidAnswers == {<<"Y">>, <<"y">>, <<" ", "y">>, <<"n", " ">>, <<"N">>}
InvalidAnswers == {<<>>, <<"x">>, <<"y", "y">>}

IpStart ==
    /\ \E n \in 0 .. MaxCommands : ipCommands \in CommandInputs(n)
    /\ ipPc = "start"
    /\ ipIndex = 0
    /\ ipAnswers = <<>>
    /\ ipChoices = <<>>
    /\ ipPrompted = <<>>
    /\ ipApproved = <<>>

IpIdle ==
    /\ ipCommands = <<>>
    /\ ipPc = "idle"
    /\ ipIndex = 0
    /\ ipAnswers = <<>>
    /\ ipChoices = <<>>
    /\ ipPrompted = <<>>
    /\ ipApproved = <<>>

IpOthers == <<qcVars, sinkVars, runVars, advVars, arVars, rtVars, cvVars, thVars, pmVars>>

\* The call up to its first prompt: the empty list returns at once.
process_commands_interactively ==
    /\ ipPc = "start"
    /\ IF ipCommands = <<>>
       THEN /\ ipPc' = "done"
            /\ UNCHANGED <<ipIndex, ipPrompted>>
       ELSE /\ ipPc' = "prompt"
            /\ ipIndex' = 1
            /\ ipPrompted' = <<ipCommands[1]>>
    /\ UNCHANGED <<ipCommands, ipAnswers, ipChoices, ipApproved>>
    /\ UNCHANGED IpOthers

\* One input() of the while loop, and what follows it up to the next input()
\* or the return.
input_choice(raw) ==
    /\ ipPc = "prompt"
    /\ IF Choice(raw) \in {<<"Y">>, <<"N">>}
       THEN /\ ipApproved' = IF Choice(raw) = <<"Y">>
                             THEN Append(ipApproved, ipCommands[ipIndex])
                             ELSE ipApproved
            /\ ipChoices' = Append(ipChoices, raw)
            /\ ipAnswers' = <<>>
            /\ IF ipIndex < Len(ipCommands)
               THEN /\ ipIndex' = ipIndex + 1
                    /\ ipPrompted' = Append(ipPrompted, ipCommands[ipIndex + 1])
                    /\ UNCHANGED ipPc
               ELSE /\ ipPc' = "done"
                    /\ UNCHANGED <<ipIndex, ipPrompted>>
       ELSE /\ Len(ipAnswers) < MaxRetries
            /\ ipAnswers' = Append(ipAnswers, raw)
            /\ UNCHANGED <<ipPc, ipIndex, ipChoices, ipPrompted, ipApproved>>
    /\ UNCHANGED ipCommands
    /\ UNCHANGED IpOthers

IpAnswer == \E raw \in ValidAnswers \cup InvalidAnswers : input_choice(raw)

\* Every component this model adds to the first four, at rest.
ExtIdle == ArIdle /\ RtIdle /\ CvIdle /\ ThIdle /\ PmIdle /\ IpIdle

(***************************************************************************)
(* The specifications.                                                     *)
(***************************************************************************)
QcIdle ==
    /\ cache_status = NoCacheStatus
    /\ cache_config = [query_cache_size |-> Missing, query_cache_type |-> "absent"]
    /\ qcDb = "up"
    /\ qcPc = "idle"
    /\ qcResult = NotRun
    /\ qcConn = "none"

\* The query-cache evaluator on every snapshot.
InitCache == QcStart /\ SinkStart /\ RunIdle /\ AdvIdle /\ ExtIdle

SpecCache == InitCache /\ [][analyze_query_cache]_vars

\* The report sink under a running clock.
InitSink == QcIdle /\ SinkStart /\ RunIdle /\ AdvIdle /\ ExtIdle

SpecSink == InitSink /\ [][Tick \/ SaveReport]_vars

\* One monitoring run on every combination of adapter outcomes.
InitRun == RunStart /\ SinkStart /\ AdvIdle /\ ExtIdle

SpecRun == InitRun /\ [][generate_report]_vars

\* The advisory bridge on every response.
InitAdvisory == QcIdle /\ SinkStart /\ RunIdle /\ AdvStart /\ ExtIdle

SpecAdvisory == InitAdvisory /\ [][process_ai_response]_vars

\* The one save_report call of a run (generate_report, "Save report in JSON").
RunSavesReport ==
    /\ sinkLast.n = 0
    /\ \E report_data \in SinkInputs, io \in IoOutcomes :
          save_report(report_data, 0, io)

\* The advisory call, before or after the run persisted its report.
InitAnalyze ==
    /\ QcIdle /\ SinkStart /\ RunIdle /\ AdvIdle
    /\ ArStart /\ RtIdle /\ CvIdle /\ ThIdle
    /\ PmIdle /\ IpIdle

SpecAnalyze == InitAnalyze /\ [][RunSavesReport \/ analyze_report]_vars

\* Saving a report and reading it back, under a running clock.
InitRoundTrip ==
    /\ QcIdle /\ SinkStart /\ RunIdle /\ AdvIdle
    /\ ArIdle /\ RtStart /\ CvIdle /\ ThIdle
    /\ PmIdle /\ IpIdle

SpecRoundTrip == InitRoundTrip /\ [][Tick \/ RoundTripSave \/ load_report]_vars

\* The conversion on every value.
InitConvert ==
    /\ QcIdle /\ SinkStart /\ RunIdle /\ AdvIdle
    /\ ArIdle /\ RtIdle /\ CvStart /\ ThIdle
    /\ PmIdle /\ IpIdle

SpecConvert == InitConvert /\ [][convert_to_serializable]_vars

\* Table health on every result set.
InitTables ==
    /\ QcIdle /\ SinkStart /\ RunIdle /\ AdvIdle
    /\ ArIdle /\ RtIdle /\ CvIdle /\ ThStart
    /\ PmIdle /\ IpIdle

SpecTables == InitTables /\ [][analyze_table_health]_vars

\* The performance rules on every outcome of the three adapters.
InitPerf ==
    /\ QcIdle /\ SinkStart /\ RunIdle /\ AdvIdle
    /\ ArIdle /\ RtIdle /\ CvIdle /\ ThIdle
    /\ PmStart /\ IpIdle

SpecPerf == InitPerf /\ [][analyze_performance_metrics]_vars

\* The approval dialogue on every command list and every typed answer.
InitInteractive ==
    /\ QcIdle /\ SinkStart /\ RunIdle /\ AdvIdle
    /\ ArIdle /\ RtIdle /\ CvIdle /\ ThIdle
    /\ PmIdle /\ IpStart

SpecInteractive == InitInteractive /\ [][process_commands_interactively \/ IpAnswer]_vars

(***************************************************************************)
(* Claims about the query-cache evaluator (checked under SpecCache).       *)
(***************************************************************************)
QcReturned == qcPc = "done" /\ qcResult.outcome = "report"
QcEnabled  == cache_config.query_cache_type # "OFF"

\* C1 (as stated): with the cache enabled, hits=80 and inserts=20 give a hit
\* ratio of 80% and the output has the "hit ratio is good" recommendation and
\* no low-hit-ratio warning.
C1_GoodAtEighty ==
    (QcReturned /\ QcEnabled /\ cache_status.Qcache_hits = Num(80)
        /\ cache_status.Qcache_inserts = Num(20))
    => /\ RatioEq(qcResult.hit_ratio, 80)
       /\ MsgGoodHit \in Range(qcResult.recommendations)
       /\ MsgLowHit \notin Range(qcResult.warnings)

\* C1 (amended): with the cache enabled, hits=80 and inserts=20 give a hit
\* ratio of exactly 80% and the output has neither the "hit ratio is good"
\* recommendation nor the low-hit-ratio warning; the recommendation needs a
\* ratio strictly above 80% (hits=81, inserts=19 has it).
C1_EightyIsNotGood ==
    /\ (QcReturned /\ QcEnabled /\ cache_status.Qcache_hits = Num(80)
            /\ cache_status.Qcache_inserts = Num(20))
       => /\ RatioEq(qcResult.hit_ratio, 80)
          /\ MsgGoodHit \notin Range(qcResult.recommendations)
          /\ MsgLowHit \notin Range(qcResult.warnings)
    /\ (QcReturned /\ QcEnabled /\ cache_status.Qcache_hits = Num(81)
            /\ cache_status.Qcache_inserts = Num(19))
       => /\ RatioGt(qcResult.hit_ratio, 80)
          /\ MsgGoodHit \in Range(qcResult.recommendations)
          /\ MsgLowHit \notin Range(qcResult.warnings)

C1_Witness ==
    /\ QcReturned /\ QcEnabled
    /\ cache_status.Qcache_hits = Num(80)
    /\ cache_status.Qcache_inserts = Num(20)
    /\ RatioEq(qcResult.hit_ratio, 80)

\* Every counter other than the two denominators parses as a number.
C2_OthersParse ==
    /\ Get(cache_status.Qcache_hits, 0).k = "num"
    /\ Get(cache_status.Qcache_inserts, 0).k = "num"
    /\ Get(cache_status.Qcache_free_blocks, 0).k = "num"
    /\ Get(cache_status.Qcache_free_memory, 0).k = "num"
    /\ Get(cache_status.Qcache_lowmem_prunes, 0).k = "num"
    /\ Get(cache_status.Qcache_total_blocks, 1).k = "num"
    /\ Get(cache_config.query_cache_size, 1).k = "num"

\* C2: a snapshot that reports Qcache_total_blocks = 0 or query_cache_size = 0
\* raises no division fault; both ratios are computed with the denominator
\* floored at 1 and the analysis returns its report.
C2_ZeroDenominatorFloored ==
    (qcPc = "done" /\ qcDb = "up" /\ C2_OthersParse
        /\ (cache_status.Qcache_total_blocks = Num(0)
            \/ cache_config.query_cache_size = Num(0)))
    => /\ qcResult.outcome = "report"
       /\ qcResult.exc # "ZeroDivisionError"
       /\ qcResult.fragmentation_ratio =
            Ratio(Get(cache_status.Qcache_free_blocks, 0).n * 100,
                  Max(Get(cache_status.Qcache_total_blocks, 1).n, 1))
       /\ qcResult.memory_usage_ratio =
            LET t == Max(Get(cache_config.query_cache_size, 1).n, 1)
            IN  Ratio((t - Get(cache_status.Qcache_free_memory, 0).n) * 100, t)

\* C3 (as stated): with query_cache_type = 'OFF' both output lists are empty.
C3_DisabledEmitsNothing ==
    (qcPc = "done" /\ cache_config.query_cache_type = "OFF")
    => qcResult.warnings = <<>> /\ qcResult.recommendations = <<>>

\* C3 (amended): with query_cache_type = 'OFF' a returned report carries
\* exactly one warning, "Query Cache is currently disabled", and no
\* recommendation: no threshold rule is evaluated, whatever the counters are.
C3_DisabledEmitsOnlyNotice ==
    (QcReturned /\ cache_config.query_cache_type = "OFF")
    => qcResult.warnings = <<MsgDisabled>> /\ qcResult.recommendations = <<>>

\* A disabled cache whose counters would fire the hit-ratio and prune rules.
C3_Witness ==
    /\ QcReturned /\ cache_config.query_cache_type = "OFF"
    /\ cache_status.Qcache_hits = Num(0)
    /\ cache_status.Qcache_inserts = Num(10001)
    /\ cache_status.Qcache_lowmem_prunes = Num(7)
    /\ MsgDisabled \in Range(qcResult.warnings)

\* C14: with the cache enabled, a snapshot with Qcache_inserts = 0 gets
\* neither the low-memory warning nor its recommendation, whatever
\* Qcache_lowmem_prunes is; with Qcache_inserts > 0 both are emitted exactly
\* when Qcache_lowmem_prunes > Qcache_inserts / 3.
C14_PrunesNeedInserts ==
    (QcReturned /\ QcEnabled) =>
        LET inserts == Get(cache_status.Qcache_inserts, 0).n
            prunes  == Get(cache_status.Qcache_lowmem_prunes, 0).n
            warned  == MsgPrunes \in Range(qcResult.warnings)
            advised == MsgIncreaseOrLimit \in Range(qcResult.recommendations)
        IN  /\ inserts = 0 => ~warned /\ ~advised
            /\ inserts > 0 => /\ warned <=> prunes * 3 > inserts
                              /\ advised <=> prunes * 3 > inserts

\* The rule a message comes from.
RuleOf(msg) ==
    CASE msg \in {MsgLowHit, MsgIncreaseTraffic, MsgGoodHit} -> "hit ratio"
      [] msg \in {MsgHighMem, MsgLowMem, MsgIncrease, MsgDecrease} -> "memory usage"
      [] msg \in {MsgFragmented, MsgFlush} -> "fragmentation"
      [] msg \in {MsgPrunes, MsgIncreaseOrLimit} -> "low-memory eviction"
      [] OTHER -> "disabled"

Position(order, rule) == CHOOSE i \in DOMAIN order : order[i] = rule

\* The messages of a list come from rules in the given order.
InOrder(list, order) ==
    \A i, j \in DOMAIN list :
        i < j => Position(order, RuleOf(list[i])) < Position(order, RuleOf(list[j]))

ListedOrder == <<"hit ratio", "fragmentation", "memory usage", "low-memory eviction">>
CodeOrder   == <<"hit ratio", "memory usage", "fragmentation", "low-memory eviction">>

\* C15 (as stated): the warnings and the recommendations appear in the order
\* hit ratio, fragmentation, memory usage, low-memory eviction, so that a
\* fragmentation warning precedes a memory-usage warning.
C15_ListedOrder ==
    (QcReturned /\ QcEnabled) =>
        /\ InOrder(qcResult.warnings, ListedOrder)
        /\ InOrder(qcResult.recommendations, ListedOrder)

\* C15 (amended): the warnings and the recommendations appear in the order
\* hit ratio, memory usage, fragmentation, low-memory eviction: when both the
\* memory-usage rule and the fragmentation rule fire, the memory-usage
\* warning precedes the fragmentation warning.
C15_CodeOrder ==
    (QcReturned /\ QcEnabled) =>
        /\ InOrder(qcResult.warnings, CodeOrder)
        /\ InOrder(qcResult.recommendations, CodeOrder)

C15_Witness ==
    /\ QcReturned /\ QcEnabled
    /\ qcResult.warnings = <<MsgLowHit, MsgHighMem, MsgFragmented, MsgPrunes>>

LowHitLowTraffic ==
    /\ QcReturned /\ QcEnabled
    /\ RatioLt(qcResult.hit_ratio, LowHitRatio)
    /\ qcResult.queries <= TrafficThreshold

\* C16 (as stated): with a hit ratio below 30% and at most 10,000 queries the
\* low-hit-ratio warning is present and the output has no recommendation to
\* increase the cache size.
C16_NoIncreaseAdvice ==
    LowHitLowTraffic =>
        /\ MsgLowHit \in Range(qcResult.warnings)
        /\ Range(qcResult.recommendations) \cap {MsgIncreaseTraffic, MsgIncrease} = {}

\* C16 (amended): with a hit ratio below 30% and at most 10,000 queries the
\* low-hit-ratio warning is present and the hit-ratio rule's recommendation
\* (increase query_cache_size because of significant traffic) is absent; the
\* plain recommendation to increase query_cache_size is present exactly when
\* the memory usage is above 95%.
C16_NoTrafficAdvice ==
    LowHitLowTraffic =>
        /\ MsgLowHit \in Range(qcResult.warnings)
        /\ MsgIncreaseTraffic \notin Range(qcResult.recommendations)
        /\ MsgIncrease \in Range(qcResult.recommendations)
             <=> RatioGt(qcResult.memory_usage_ratio, HighMemoryUsage)

C16_Witness ==
    /\ LowHitLowTraffic
    /\ cache_status.Qcache_hits = Num(20)
    /\ cache_status.Qcache_inserts = Num(80)
    /\ MsgIncrease \in Range(qcResult.recommendations)

\* C17: the hit ratio analyze_query_cache computes is hits / (hits + inserts),
\* as a percentage, for every pair of counters, and it is 0 when both are 0.
C17_HitRatioFormula ==
    QcReturned =>
        LET hits    == Get(cache_status.Qcache_hits, 0).n
            inserts == Get(cache_status.Qcache_inserts, 0).n
        IN  IF hits + inserts = 0 THEN RatioEq(qcResult.hit_ratio, 0)
            ELSE qcResult.hit_ratio.n * (hits + inserts)
                    = hits * 100 * qcResult.hit_ratio.d

C17_Witness ==
    /\ QcReturned
    /\ cache_status.Qcache_hits = Num(0)
    /\ cache_status.Qcache_inserts = Num(0)
    /\ RatioEq(qcResult.hit_ratio, 0)

MemoryHighOut == <<MsgHighMem \in Range(qcResult.warnings),
                   MsgIncrease \in Range(qcResult.recommendations)>>
MemoryLowOut  == <<MsgLowMem \in Range(qcResult.warnings),
                   MsgDecrease \in Range(qcResult.recommendations)>>

\* C18: with the cache enabled, a memory-usage ratio above 95% emits the
\* high-usage warning with the recommendation to increase the cache size, a
\* ratio below 20% the low-usage warning with the recommendation to decrease
\* it, never both, and a ratio from 20% to 95%, both ends included, neither.
C18_MemoryBands ==
    (QcReturned /\ QcEnabled) =>
        LET ratio == qcResult.memory_usage_ratio
        IN  /\ MemoryHighOut = IF RatioGt(ratio, 95) THEN <<TRUE, TRUE>>
                                ELSE <<FALSE, FALSE>>
            /\ MemoryLowOut = IF RatioLt(ratio, 20) THEN <<TRUE, TRUE>>
                               ELSE <<FALSE, FALSE>>
            /\ ~(MemoryHighOut[1] /\ MemoryLowOut[1])

C18_Witness ==
    /\ QcReturned /\ QcEnabled
    /\ RatioEq(qcResult.memory_usage_ratio, 95)
    /\ MemoryHighOut = <<FALSE, FALSE>>
    /\ MemoryLowOut = <<FALSE, FALSE>>

(***************************************************************************)
(* Claims about the report sink (checked under SpecSink).                  *)
(***************************************************************************)

\* C4: after a save_report call either it returned and a complete file is at
\* the returned path, or it failed and the output directory holds no
\* truncated file it did not hold before the call; when serializing failed
\* (json.dump raised TypeError) nothing was created or opened for writing.
C4_CompleteFileOrNone ==
    /\ sinkLast.outcome = "returned" => files[sinkLast.path].status = "complete"
    /\ sinkLast.outcome = "raised" =>
          \A p \in Stamps :
              files[p].status = "truncated" => sinkLast.before[p].status = "truncated"
    /\ sinkLast.exc = "TypeError" => files = sinkLast.before

\* C5: any two successful save_report calls returned different paths.
C5_PathsDistinct ==
    \A i, j \in DOMAIN returned : i # j => returned[i] # returned[j]

(***************************************************************************)
(* Claims about the orchestrator (checked under SpecRun).                  *)
(***************************************************************************)
RunDone == runPc = "done"

\* Every database adapter fails to connect.
DbUnreachable ==
    /\ runIn.status = "fail" /\ qcDb = "down" /\ runIn.tables = "fail"
    /\ runIn.innodb = "fail" /\ runIn.slow = "fail" /\ runIn.perf = "fail"

\* The two psutil-based adapters succeed.
OsAdaptersOk == runIn.sys = "ok" /\ runIn.proc # "fail"

\* The same run against a database that answers every adapter.
WithWorkingDb(in) ==
    [in EXCEPT !.status = "ok", !.tables = "ok", !.innodb = "ok", !.slow = "ok",
               !.perf = "ok"]

SectionsNamed(report, name) == SelectSeq(report, LAMBDA x : x.name = name)

FailedAdapters ==
    {a \in {"sys", "proc", "status", "innodb", "slow", "perf"} : runIn[a] = "fail"}
    \cup (IF runIn.enable_tables /\ runIn.tables = "fail" THEN {"tables"} ELSE {})
    \cup (IF qcDb = "down" THEN {"cache"} ELSE {})

\* The failed adapter handed a sentinel (None, or the error text) to the run.
Sentinel(a) ==
    CASE a = "sys"    -> runResult.returns.system_resources \in {"None", "error string"}
      [] a = "proc"   -> runResult.returns.mysql_processes \in {"None", "error string"}
      [] a = "status" -> runResult.returns.mysql_stats = "error string"
      [] a = "cache"  -> qcResult.outcome = "none" /\ qcResult.exc # "not run"
      [] a = "tables" -> runResult.returns.table_stats = "None"
      [] a = "innodb" -> runResult.returns.innodb_metrics = "None"
      [] a = "slow"   -> runResult.returns.slow_queries = "None"
      [] a = "perf"   -> runResult.returns.perf_schema_metrics = "None"

AdvDone == advPc = "done"

\* The number of objects among the first i elements: the place of element i
\* in a list that keeps the objects in order.
ObjectRank(elems, i) == Cardinality({j \in 1 .. i : elems[j].t = "object"})

\* C8: a command object that lacks priority and rationale is in the output,
\* with priority "medium" and a non-empty default rationale.
C8_MissingFieldsRepaired ==
    AdvDone =>
    \A i \in DOMAIN advResponse.elems :
        LET c == advResponse.elems[i]
            k == ObjectRank(advResponse.elems, i)
        IN  (c.t = "object" /\ c.priority = "absent" /\ c.rationale = "absent")
            => /\ k \in DOMAIN advResult
               /\ advResult[k].priority = "medium"
               /\ advResult[k].rationale = "No rationale provided"
               /\ advResult[k].rationale # ""
               /\ c.action # "absent" => advResult[k].action = c.action

\* A command without priority and rationale that follows an element that is
\* not an object.
C8_Witness ==
    /\ AdvDone
    /\ Len(advResponse.elems) = 2
    /\ advResponse.elems[1].t # "object"
    /\ advResponse.elems[2].action = "flush_cache"
    /\ advResponse.elems[2].priority = "absent"
    /\ Len(advResult) = 1
    /\ advResult[1].action = "flush_cache"

\* out is cmd with every absent field filled in and every other field kept.
Repaired(c, out) ==
    /\ DOMAIN out = CmdFields
    /\ \A f \in CmdFields : c[f] # "absent" => out[f] = c[f]
    /\ c.id = "absent" => out.id \in UuidPool
    /\ c.action = "absent" => out.action = "unknown_action"
    /\ c.priority = "absent" => out.priority = "medium"
    /\ c.target_service = "absent" => out.target_service = "mysql"
    /\ c.parameters = "absent" => out.parameters = "{}"
    /\ c.rationale = "absent" => out.rationale = "No rationale provided"

\* C9 (as stated): the output holds one repaired command per element of the
\* commands list, in input order, also for elements that are not objects.
C9_OnePerElement ==
    (AdvDone /\ FullCmd \in Range(advResponse.elems)
        /\ Range(advResponse.elems) # {FullCmd})
    =>
    /\ Len(advResult) = Len(advResponse.elems)
    /\ \A i \in DOMAIN advResponse.elems :
          i \in DOMAIN advResult /\ DOMAIN advResult[i] = CmdFields

\* C9 (amended): the output holds one repaired command per element that is an
\* object, in input order; an element that is not an object is skipped and
\* never causes another element to be discarded.
C9_OnePerObject ==
    AdvDone =>
    /\ Len(advResult) = ObjectRank(advResponse.elems, Len(advResponse.elems))
    /\ \A i \in DOMAIN advResponse.elems :
          advResponse.elems[i].t = "object"
          => Repaired(advResponse.elems[i],
                      advResult[ObjectRank(advResponse.elems, i)])

\* A well-formed command, then an element that is not an object.
C9_Witness ==
    /\ AdvDone
    /\ Len(advResponse.elems) = 2
    /\ advResponse.elems[1] = FullCmd
    /\ advResponse.elems[2].t # "object"
    /\ Len(advResult) = 1
    /\ advResult[1].id = "c1"

\* C10: every returned command has the six fields and a priority among high,
\* medium and low.
C10_PriorityInRange ==
    AdvDone =>
    \A k \in DOMAIN advResult :
        /\ DOMAIN advResult[k] = CmdFields
        /\ \A f \in CmdFields : advResult[k][f] # "absent"
        /\ advResult[k].priority \in Priorities

(***************************************************************************)
(* Claims about the advisory call (checked under SpecAnalyze).             *)
(***************************************************************************)
AdvisoryFailed(in) ==
    \/ in.transport # "ok"
    \/ in.response.top = "invalid"

ReportPersisted == \E p \in Stamps : files[p].status = "complete"

\* C11: analyze_report never raises; on a transport failure of the advisory
\* service, or when the response text cannot be parsed, it returns an empty
\* or absent command list; and the call leaves every file of the output
\* directory, a persisted report included, as it was.
C11_AnalyzeNeverRaises ==
    [][ (arPc = "start" /\ arPc' = "done") =>
          /\ arResult'.outcome = "returned"
          /\ AdvisoryFailed(arIn') => arResult'.commands = <<>>
          /\ files' = files ]_vars

C11_Witness ==
    /\ arPc = "done"
    /\ arIn.data = "plain"
    /\ arIn.transport = "api_error"
    /\ arResult.is_none
    /\ ReportPersisted

RECURSIVE IsPrimitive(_)
IsPrimitive(v) ==
    \/ v.t \in PrimitiveTypes /\ v.items = <<>>
    \/ /\ v.t \in {"dict", "list"}
       /\ \A i \in DOMAIN v.items : IsPrimitive(v.items[i])

\* C13: whatever _convert_to_serializable returns is made only of mappings,
\* lists, strings, numbers, booleans and null: no other value, such as a
\* time value held in a field of a record, survives at any depth.
C13_OnlyPrimitives ==
    (cvPc = "done" /\ cvResult.outcome = "returned") => IsPrimitive(cvResult.value)

(***************************************************************************)
(* Claims about table health (checked under SpecTables).                   *)
(***************************************************************************)
ThReturned ==
    thPc = "done" /\ thStats.kind = "stats" /\ thResult.outcome = "returned"

\* The three checks as the claims word them, in their order.
Checks == <<"no index", "large table", "free space">>

CheckHolds(c, table) ==
    CASE c = 1 -> table.Index_Size.n = 0
      [] c = 2 -> table.Data_Size.n > 2^30
      [] OTHER -> table.Free_Space.n > table.Data_Size.n \div 5   \* whole bytes: 20%

WarningOf(c) == <<MsgNoIndexes, MsgLarge, MsgFreeSpace>>[c]
AdviceOf(c)  == <<MsgAddIndexes, MsgPartition, MsgOptimize>>[c]

Count(list, x) == Cardinality({p \in DOMAIN list : list[p] = x})

\* Tables in input order and, within a table, the checks in their order.
TableOrdered(list, msgOf(_)) ==
    \A p, q \in DOMAIN list :
        p < q =>
            \/ list[p].table < list[q].table
            \/ /\ list[p].table = list[q].table
               /\ \E c, d \in DOMAIN Checks :
                     c < d /\ list[p].msg = msgOf(c) /\ list[q].msg = msgOf(d)

Firing(tables) ==
    {ic \in (DOMAIN tables) \X (DOMAIN Checks) : CheckHolds(ic[2], tables[ic[1]])}

\* C19: every check that holds for a table adds exactly one warning and one
\* recommendation for that table, whatever the other two checks do, a check
\* that does not hold adds none, and the output lists the tables in input
\* order with the checks in the order index, size, free space.
C19_IndependentChecks ==
    ThReturned =>
        LET tables == thStats.table_stats
        IN  /\ \A i \in DOMAIN tables, c \in DOMAIN Checks :
                  LET n == IF CheckHolds(c, tables[i]) THEN 1 ELSE 0
                  IN  /\ Count(thResult.warnings, About(WarningOf(c), tables[i])) = n
                      /\ Count(thResult.recommendations,
                               About(AdviceOf(c), tables[i])) = n
            /\ Len(thResult.warnings) = Cardinality(Firing(tables))
            /\ Len(thResult.recommendations) = Cardinality(Firing(tables))
            /\ TableOrdered(thResult.warnings, WarningOf)
            /\ TableOrdered(thResult.recommendations, AdviceOf)

C19_Witness ==
    /\ ThReturned
    /\ Len(thStats.table_stats) = 2
    /\ thStats.table_stats[2] =
          [Table |-> 2, Index_Size |-> Num(0), Data_Size |-> Num(100),
           Free_Space |-> Num(30)]
    /\ thResult.warnings =
          << [msg |-> MsgLarge, table |-> 1],
             [msg |-> MsgNoIndexes, table |-> 2],
             [msg |-> MsgFreeSpace, table |-> 2] >>

WarningsAbout(i) ==
    {thResult.warnings[p].msg :
        p \in {q \in DOMAIN thResult.warnings : thResult.warnings[q].table = i}}

JustOverOneGiB(table) ==
    table.Data_Size = Num(2^30 + 1) /\ table.Free_Space = Num(0)

\* C20 (as stated): a table with Data_Size = 2^30 + 1 and Free_Space = 0 gets
\* exactly the "large table" warning and not the "free space" warning; at
\* Data_Size = 2^30 the "large table" warning is not emitted.
C20_ExactlyLarge ==
    ThReturned =>
        \A i \in DOMAIN thStats.table_stats :
            LET table == thStats.table_stats[i]
            IN  /\ JustOverOneGiB(table) => WarningsAbout(i) = {MsgLarge}
                /\ table.Data_Size = Num(2^30) => MsgLarge \notin WarningsAbout(i)

\* C20 (amended): a table with Data_Size = 2^30 + 1 and Free_Space = 0 gets
\* the "large table" warning and not the "free space" warning, and next to
\* it the "no indexes" warning exactly when its Index_Size is 0; at
\* Data_Size = 2^30 the "large table" warning is not emitted.
C20_LargeNotFree ==
    ThReturned =>
        \A i \in DOMAIN thStats.table_stats :
            LET table == thStats.table_stats[i]
            IN  /\ JustOverOneGiB(table) =>
                      WarningsAbout(i) =
                          {MsgLarge} \cup (IF table.Index_Size = Num(0)
                                           THEN {MsgNoIndexes} ELSE {})
                /\ table.Data_Size = Num(2^30) => MsgLarge \notin WarningsAbout(i)

C20_Witness ==
    /\ ThReturned
    /\ Len(thStats.table_stats) = 2
    /\ JustOverOneGiB(thStats.table_stats[1])
    /\ thStats.table_stats[1].Index_Size = Num(10)
    /\ thStats.table_stats[2].Data_Size = Num(2^30)
    /\ WarningsAbout(1) = {MsgLarge}
    /\ MsgLarge \notin WarningsAbout(2)

(***************************************************************************)
(* Claims about the performance rules (checked under SpecPerf).            *)
(***************************************************************************)
PmDone == pmPc = "done"

WarnedWith(msg) == {i \in DOMAIN pmResult.warnings : pmResult.warnings[i].msg = msg}

\* C21: the buffer-pool rule emits its warning and its recommendation
\* exactly when the reported Innodb_buffer_pool_read_requests is a number
\* greater than 0 and (read_requests - reads) / read_requests < 95%; when
\* read_requests is 0, missing or unparsable it emits nothing.
C21_PoolRuleNeedsRequests ==
    PmDone =>
        LET requests == pmIn.innodb.read_requests
            reads    == SafeInt(Get(pmIn.innodb.reads, 0), 0)
            warned   == WarnedWith(MsgLowBufferPool) # {}
            advised  == Count(pmResult.recommendations, MsgIncreasePool) > 0
            low      == /\ pmIn.innodb.db = "ok"
                        /\ requests.k = "num" /\ requests.n > 0
                        /\ (requests.n - reads) * 100 < BufferPoolHitRatio * requests.n
        IN  (warned <=> low) /\ (advised <=> low)

\* C22: more than 5 returned slow-query samples give exactly one slow-query
\* warning and exactly the two slow-query recommendations, once each; 0 to 5
\* samples give none of the three.
C22_SlowQueryRule ==
    PmDone =>
        LET n == pmResult.slow_queries
            emitted == IF n > 5 THEN 1 ELSE 0
        IN  /\ Cardinality(WarnedWith(MsgManySlow)) = emitted
            /\ Count(pmResult.recommendations, MsgReviewSlow) = emitted
            /\ Count(pmResult.recommendations, MsgLongQueryTime) = emitted

C22_Witness ==
    /\ PmDone
    /\ pmResult.slow_queries = 6
    /\ Warn(MsgManySlow, 6) \in Range(pmResult.warnings)
    /\ Count(pmResult.recommendations, MsgLongQueryTime) = 1

\* The sampled top queries whose average latency is a number above 1000 ms.
AboveOneSecond ==
    {i \in DOMAIN pmResult.top_queries :
        pmResult.top_queries[i].k = "num" /\ pmResult.top_queries[i].n > 1000}

\* C23: there are as many high-latency warnings as sampled top queries with
\* avg_latency_ms > 1000.
C23_WarnedIndividually ==
    PmDone => Cardinality(WarnedWith(MsgHighLatency)) = Cardinality(AboveOneSecond)

\* C23 (amended): the sampled top queries with avg_latency_ms > 1000 are
\* warned together: when there are N >= 1 of them there is exactly one
\* high-latency warning, carrying N, and one recommendation; when there is
\* none, neither is emitted.
C23_WarnedTogether ==
    PmDone =>
        LET n == Cardinality(AboveOneSecond)
            emitted == IF n >= 1 THEN 1 ELSE 0
        IN  /\ Cardinality(WarnedWith(MsgHighLatency)) = emitted
            /\ Count(pmResult.recommendations, MsgReviewLatency) = emitted
            /\ n >= 1 => Warn(MsgHighLatency, n) \in Range(pmResult.warnings)

C23_Witness ==
    /\ PmDone
    /\ Cardinality(AboveOneSecond) = 2
    /\ Cardinality(WarnedWith(MsgHighLatency)) = 1
    /\ Warn(MsgHighLatency, 2) \in Range(pmResult.warnings)

\* C25: for an unparsable or null Innodb_buffer_pool_reads, what safe_int
\* gives the buffer-pool rule differs from what it gives for the input 0.
C25_UnavailableIsNotZero ==
    (PmDone /\ pmResult.buffer_stats.rows
            /\ pmResult.buffer_stats.reads.k \in {"bad", "null"}) =>
        PoolReads(pmResult.buffer_stats)
            # PoolReads([pmResult.buffer_stats EXCEPT !.reads = Num(0)])

\* C26: when all three adapters fail, analyze_performance_metrics returns
\* exactly one warning and no recommendation.
C26_OneExplanatoryWarning ==
    (PmDone /\ pmIn.innodb.db # "ok" /\ pmIn.slow.db # "ok" /\ pmIn.perf.db # "ok") =>
        /\ Len(pmResult.warnings) = 1
        /\ pmResult.recommendations = <<>>

\* C28: after analyze_performance_metrics called its three adapters, none of
\* the connections they opened is still open.
C28_ConnectionsClosed ==
    PmDone => \A i \in DOMAIN pmResult.conns : pmResult.conns[i] # "open"

(***************************************************************************)
(* Further claims about the query-cache evaluator (checked under           *)
(* SpecCache).                                                             *)
(***************************************************************************)
Malformed(raw) == raw.k \in {"bad", "null"}

MalformedCounters ==
    {f \in DOMAIN cache_status : Malformed(cache_status[f])}
    \cup {f \in {"query_cache_size"} : Malformed(cache_config[f])}

\* A divisor of the metric block is the number 0.
ZeroDivisor ==
    \/ Get(cache_status.Qcache_total_blocks, 1) = Num(0)
    \/ Get(cache_config.query_cache_size, 1) = Num(0)

\* C24: with the server answering, no divisor 0 and exactly one counter of
\* the snapshot malformed, analyze_query_cache does not abandon the
\* evaluation: it returns its report.
C24_MalformedStaysLocal ==
    (qcPc = "done" /\ qcDb = "up" /\ ~ZeroDivisor
                   /\ Cardinality(MalformedCounters) = 1) =>
        qcResult.outcome = "report"

IsPercentage(ratio) == ratio.n >= 0 /\ ratio.n <= 100 * ratio.d

\* C27: the hit ratio, the fragmentation ratio and the memory-usage ratio of
\* a returned report lie between 0% and 100%.
C27_RatiosArePercentages ==
    QcReturned =>
        /\ IsPercentage(qcResult.hit_ratio)
        /\ IsPercentage(qcResult.fragmentation_ratio)
        /\ IsPercentage(qcResult.memory_usage_ratio)

(***************************************************************************)
(* A further claim about the report sink (checked under SpecSink).         *)
(***************************************************************************)
\* C30: a completely written report file is named with the second of the
\* metadata.timestamp it holds.
C30_OneTimestamp ==
    \A p \in Stamps :
        files[p].status = "complete" => Stamp(files[p].timestamp) = p

(***************************************************************************)
(* Claims about interactive approval (checked under SpecInteractive).      *)
(***************************************************************************)
\* A typed answer that is one letter between blanks.
IsLetter(raw, letters) ==
    \E k \in DOMAIN raw :
        /\ raw[k] \in letters
        /\ \A j \in DOMAIN raw \ {k} : raw[j] \in Blanks

IsYes(raw) == IsLetter(raw, {"Y", "y"})
IsNo(raw)  == IsLetter(raw, {"N", "n"})

\* The members of seq at the positions in keep, in order.
RECURSIVE SubList(_, _)
SubList(seq, keep) ==
    IF seq = <<>> THEN <<>>
    ELSE LET front == SubList(SubSeq(seq, 1, Len(seq) - 1), keep)
         IN  IF Len(seq) \in keep THEN Append(front, seq[Len(seq)]) ELSE front

\* C29: the commands are prompted in input order, a prompt is repeated
\* exactly after the answers that are neither Y nor N (case and surrounding
\* blanks ignored), and the approved list is the list of the commands
\* answered Y, in input order; at the return every command was decided, and
\* the empty input returns the empty list.
C29_ApprovedAreAnsweredYes ==
    /\ ipPrompted = SubSeq(ipCommands, 1, Len(ipPrompted))
    /\ \A i \in DOMAIN ipAnswers : ~IsYes(ipAnswers[i]) /\ ~IsNo(ipAnswers[i])
    /\ \A i \in DOMAIN ipChoices : IsYes(ipChoices[i]) \/ IsNo(ipChoices[i])
    /\ ipApproved = SubList(SubSeq(ipCommands, 1, Len(ipChoices)),
                            {i \in DOMAIN ipChoices : IsYes(ipChoices[i])})
    /\ ipPc = "prompt" => Len(ipPrompted) = Len(ipChoices) + 1
    /\ ipPc = "done" => ipPrompted = ipCommands /\ Len(ipChoices) = Len(ipCommands)

\* The first command approved with " y", the second asked again after "x".
C29_Witness ==
    /\ ipPc = "prompt"
    /\ ipIndex = 2
    /\ ipChoices = << <<" ", "y">> >>
    /\ ipAnswers = << <<"x">> >>
    /\ ipApproved = <<ipCommands[1]>>
    /\ ipPrompted = ipCommands

=============================================================================
